---- MODULE Spec2Model ----
(***************************************************************************)
(* A model of skeleton.config: the Option Schema (Configuration.OPTIONS),  *)
(* the environment reader getenv and the Configuration class, a dict       *)
(* subclass layering constructor-supplied options over the schema          *)
(* defaults.                                                               *)
(*                                                                         *)
(* Python objects live in a heap: every dict has an address, and a         *)
(* Configuration instance is the address of its own dict storage together  *)
(* with the address of its _user_options dict.  copy.copy allocates,       *)
(* dict.update and dict.__setitem__ write through an address, so sharing   *)
(* of storage between instances is something the model can express.        *)
(***************************************************************************)
EXTENDS Integers, Sequences, FiniteSets, TLC

VARIABLES
  heap,   \* address -> dict: Configuration.OPTIONS and the dicts of the instances
  confs,  \* the live instances: [self |-> address, user |-> address of _user_options]
  env,    \* os.environ
  call,   \* the last call made: its arguments and how it ended
  track,  \* history, per instance: how it was made and which keys the caller supplied
  modules,  \* sys.modules: the names of the modules the program has imported
  fd      \* the dump under way: the instance, the encoder's place in it, the text so far

vars == <<heap, confs, env, call, track, modules, fd>>

\* ------------------------------------------------------------------ bounds

\* Live Configuration instances kept in a behaviour of Spec.
MaxInst == 3
\* Positional arguments tried beyond the number of schema keys.
MaxExtraArgs == 1
\* Keywords in one constructor call of SpecCtor.
MaxKw == 2
\* Calls made in a behaviour of Spec.
MaxCalls == 4
\* Arguments of one merge_all call.
MaxOthers == 2

\* ------------------------------------------------------------ Python values

PyNone == [kind |-> "NoneType", n |-> 0, s |-> ""]
PyBool(b) == [kind |-> "bool", n |-> IF b THEN 1 ELSE 0, s |-> ""]
PyInt(i) == [kind |-> "int", n |-> i, s |-> ""]
PyStr(t) == [kind |-> "str", n |-> 0, s |-> t]

\* A keyword argument / a dict item.
Item(k, v) == [k |-> k, v |-> v]

\* --------------------------------------------------------- program constants

DEFAULT_MAX_POOL_CONNECTIONS == 10
DEFAULT_RETRIES == 0
DEFAULT_POOLSIZE == 10
DEFAULT_TIMEOUT == 60
\* logging.ERROR
LOGGING_LEVEL == 40

\* The keys of Configuration.OPTIONS in insertion order (list(cls.OPTIONS)).
OptionsOrder ==
  << "client_cert", "connect_timeout", "log_datefmt", "log_format", "log_file",
     "log_filemode", "log_level", "log_style", "max_pool_connections",
     "poolblock", "poolsize", "pool_timeout", "proxies", "proxies_config",
     "read_timeout", "retries", "user_agent", "verify" >>

\* The default of each key, in the same order.
OptionsDefaults ==
  << PyNone, PyInt(DEFAULT_TIMEOUT), PyStr("%Y-%m-%d %H:%M:%S"),
     PyStr("(%(asctime)s) [%(levelname)s] %(name)s.%(funcName)s(%(lineno)d): %(message)s"),
     PyNone, PyStr("a+"), PyInt(LOGGING_LEVEL), PyStr("%"),
     PyInt(DEFAULT_MAX_POOL_CONNECTIONS), PyBool(FALSE), PyInt(DEFAULT_POOLSIZE),
     PyNone, PyNone, PyNone, PyInt(DEFAULT_TIMEOUT), PyInt(DEFAULT_RETRIES),
     PyStr("skeleton-0.0.10"), PyBool(FALSE) >>

SchemaKeys == {OptionsOrder[i] : i \in 1..Len(OptionsOrder)}

IndexOf(k) == CHOOSE i \in 1..Len(OptionsOrder) : OptionsOrder[i] = k

\* Configuration.OPTIONS as defined at class-definition time.
SchemaDefaults == [k \in SchemaKeys |-> OptionsDefaults[IndexOf(k)]]

\* ------------------------------------------------------------------- dicts

\* A dict keeps its keys in the order they were inserted: keys lists them,
\* vals maps each of them to its value.
Dict(keys, vals) == [keys |-> keys, vals |-> vals]

EmptyDict == Dict(<<>>, [k \in {} |-> PyNone])

\* d[k] = v: a new key goes last, a key held keeps its place
DictSetItem(d, k, v) ==
  Dict(IF k \in DOMAIN d.vals THEN d.keys ELSE Append(d.keys, k),
       [x \in DOMAIN d.vals \cup {k} |-> IF x = k THEN v ELSE d.vals[x]])

\* d.update(e): e's items over d's, the keys new to d after d's, in e's order
DictUpdate(d, e) ==
  LET New(k) == k \notin DOMAIN d.vals
  IN  Dict(d.keys \o SelectSeq(e.keys, New),
           [x \in DOMAIN d.vals \cup DOMAIN e.vals |->
              IF x \in DOMAIN e.vals THEN e.vals[x] ELSE d.vals[x]])

\* del d[k]
DictDelItem(d, k) ==
  LET Other(x) == x # k
  IN  Dict(SelectSeq(d.keys, Other), [x \in DOMAIN d.vals \ {k} |-> d.vals[x]])

\* os.environ before any variable is set; the order of its names is not
\* looked at, so it is a plain mapping from names to strs.
NoEnviron == [k \in {} |-> ""]

\* -------------------------------------------------------------------- heap

\* The address of the class attribute Configuration.OPTIONS.
OPTIONS == 0

InitHeap == [a \in {OPTIONS} |-> Dict(OptionsOrder, SchemaDefaults)]

MaxAddr(h) == CHOOSE a \in DOMAIN h : \A b \in DOMAIN h : b <= a

\* A fresh object holding d: the heap with it, and its address.
Alloc(h, d) ==
  LET a == MaxAddr(h) + 1
  IN  [h |-> [x \in DOMAIN h \cup {a} |-> IF x = a THEN d ELSE h[x]], a |-> a]

\* dict.__setitem__(a, k, v)
HeapSetItem(h, a, k, v) == [h EXCEPT ![a] = DictSetItem(h[a], k, v)]

\* dict.update(a, b) on objects
HeapUpdate(h, a, b) == [h EXCEPT ![a] = DictUpdate(h[a], h[b])]

\* A copy that is no copy: the same object handed back.
copy_alias(h, a) == [h |-> h, a |-> a]

\* copy.copy(a): a new dict with a's items
copy_copy(h, a) == Alloc(h, h[a])

\* -------------------------------------------------------------- exceptions

NoExc == [type |-> "none", msg |-> "", key |-> ""]

\* raise type("msg: {0}".format(key))
Exc(type, msg, key) == [type |-> type, msg |-> msg, key |-> key]

\* ----------------------------------------------------------- Configuration

\* Configuration.keylist: list(cls.OPTIONS)
keylist(h) == h[OPTIONS].keys

\* _make_options, first loop: for key, value in iteritems(kwargs), from item i.
RECURSIVE make_options_kwargs(_, _, _, _)
make_options_kwargs(h, config, kwargs, i) ==
  IF i > Len(kwargs) THEN [h |-> h, exc |-> NoExc]
  ELSE IF kwargs[i].k \notin DOMAIN h[OPTIONS].vals
       THEN [h |-> h, exc |-> Exc("ValueError", "invalid key", kwargs[i].k)]
       ELSE make_options_kwargs(HeapSetItem(h, config, kwargs[i].k, kwargs[i].v),
                                config, kwargs, i + 1)

\* The second loop without its check: a positional value replaces the keyword's.
RECURSIVE make_options_args_override(_, _, _, _, _)
make_options_args_override(h, config, keys, args, i) ==
  IF i > Len(args) THEN [h |-> h, exc |-> NoExc]
  ELSE make_options_args_override(HeapSetItem(h, config, keys[i], args[i]),
                                  config, keys, args, i + 1)

\* _make_options, second loop: for i, arg in enumerate(args), from argument i.
RECURSIVE make_options_args(_, _, _, _, _)
make_options_args(h, config, keys, args, i) ==
  IF i > Len(args) THEN [h |-> h, exc |-> NoExc]
  ELSE IF keys[i] \in DOMAIN h[config].vals
       THEN [h |-> h,
             exc |-> Exc("TypeError", "multiple values for keyword argument", keys[i])]
       ELSE make_options_args(HeapSetItem(h, config, keys[i], args[i]),
                              config, keys, args, i + 1)

\* _make_options counting the positional arguments before it looks at the
\* keywords.
make_options_arity_first(h, args, kwargs) ==
  LET c  == Alloc(h, EmptyDict)
      keys == keylist(c.h)
      kw == make_options_kwargs(c.h, c.a, kwargs, 1)
  IN  IF Len(args) > Len(keys)
      THEN [h |-> c.h, exc |-> Exc("TypeError", "takes at most", ""), ret |-> c.a]
      ELSE IF kw.exc # NoExc THEN [h |-> kw.h, exc |-> kw.exc, ret |-> c.a]
           ELSE LET ar == make_options_args(kw.h, c.a, keys, args, 1)
                IN  [h |-> ar.h, exc |-> ar.exc, ret |-> c.a]

\* _make_options refusing as many positional arguments as there are keys.
make_options_one_short(h, args, kwargs) ==
  LET c  == Alloc(h, EmptyDict)
      keys == keylist(c.h)
      kw == make_options_kwargs(c.h, c.a, kwargs, 1)
  IN  IF kw.exc # NoExc THEN [h |-> kw.h, exc |-> kw.exc, ret |-> c.a]
      ELSE IF Len(args) >= Len(keys)
           THEN [h |-> kw.h, exc |-> Exc("TypeError", "takes at most", ""), ret |-> c.a]
           ELSE LET ar == make_options_args(kw.h, c.a, keys, args, 1)
                IN  [h |-> ar.h, exc |-> ar.exc, ret |-> c.a]

\* Configuration._make_options(*args, **kwargs): the address of the dict of the
\* options the caller gave, or the exception raised.
_make_options(h, args, kwargs) ==
  LET c  == Alloc(h, EmptyDict)
      kw == make_options_kwargs(c.h, c.a, kwargs, 1)
      keys == keylist(kw.h)
  IN  IF kw.exc # NoExc THEN [h |-> kw.h, exc |-> kw.exc, ret |-> c.a]
      ELSE IF Len(args) > Len(keys)
           THEN [h |-> kw.h, exc |-> Exc("TypeError", "takes at most", ""), ret |-> c.a]
           ELSE LET ar == make_options_args(kw.h, c.a, keys, args, 1)
                IN  [h |-> ar.h, exc |-> ar.exc, ret |-> c.a]

\* __init__ storing the user's options alone, not laid over the defaults.
init_without_defaults(h, self, args, kwargs) ==
  LET mo == _make_options(h, args, kwargs)
  IN  IF mo.exc # NoExc THEN [h |-> mo.h, exc |-> mo.exc, user |-> mo.ret]
      ELSE [h |-> HeapUpdate(mo.h, self, mo.ret), exc |-> NoExc, user |-> mo.ret]

\* Configuration.__init__(self, *args, **kwargs); self is the (empty) dict
\* object __new__ made.
__init__(h, self, args, kwargs) ==
  LET mo == _make_options(h, args, kwargs)
  IN  IF mo.exc # NoExc THEN [h |-> mo.h, exc |-> mo.exc, user |-> mo.ret]
      ELSE LET cv == copy_copy(mo.h, OPTIONS)
               h1 == HeapUpdate(cv.h, cv.a, mo.ret)
               h2 == HeapUpdate(h1, self, cv.a)
           IN  [h |-> h2, exc |-> NoExc, user |-> mo.ret]

\* Configuration(*args, **kwargs): the new instance, or the exception raised.
Configuration(h, args, kwargs) ==
  LET new == Alloc(h, EmptyDict)
      r   == __init__(new.h, new.a, args, kwargs)
  IN  [h |-> r.h, exc |-> r.exc, ret |-> [self |-> new.a, user |-> r.user]]

\* ------------------------------------------ the mutators inherited from dict

\* dict.update(self, **items): every item stored, no key looked at.
RECURSIVE dict_update(_, _, _, _)
dict_update(h, self, items, i) ==
  IF i > Len(items) THEN [h |-> h, exc |-> NoExc, ret |-> PyNone]
  ELSE dict_update(HeapSetItem(h, self.self, items[i].k, items[i].v), self, items, i + 1)

\* dict.setdefault(self, key, default)
dict_setdefault(h, self, key, default) ==
  IF key \in DOMAIN h[self.self].vals
  THEN [h |-> h, exc |-> NoExc, ret |-> h[self.self].vals[key]]
  ELSE [h |-> HeapSetItem(h, self.self, key, default), exc |-> NoExc, ret |-> default]

\* The dict at address a without key.
HeapDelItem(h, a, key) ==
  [h EXCEPT ![a] = DictDelItem(h[a], key)]

\* dict.pop(self, key) and dict.pop(self, key, default)
dict_pop(h, self, key, has_default, default) ==
  IF key \in DOMAIN h[self.self].vals
  THEN [h |-> HeapDelItem(h, self.self, key), exc |-> NoExc, ret |-> h[self.self].vals[key]]
  ELSE IF has_default THEN [h |-> h, exc |-> NoExc, ret |-> default]
       ELSE [h |-> h, exc |-> Exc("KeyError", "", key), ret |-> PyNone]

\* dict.__delitem__(self, key): del self[key]
dict_delitem(h, self, key) ==
  IF key \in DOMAIN h[self.self].vals
  THEN [h |-> HeapDelItem(h, self.self, key), exc |-> NoExc, ret |-> PyNone]
  ELSE [h |-> h, exc |-> Exc("KeyError", "", key), ret |-> PyNone]

\* dict.clear(self)
dict_clear(h, self) ==
  [h |-> [h EXCEPT ![self.self] = EmptyDict], exc |-> NoExc, ret |-> PyNone]

\* A tuple as a value: l is the sequence of its elements.
PyTuple(l) == [kind |-> "tuple", n |-> 0, s |-> "", l |-> l]

\* dict.popitem(self): the item inserted last is removed and returned as
\* (key, value); KeyError when there is none.
dict_popitem(h, self) ==
  LET d == h[self.self]
  IN  IF d.keys = <<>>
      THEN [h |-> h, exc |-> Exc("KeyError", "popitem(): dictionary is empty", ""),
            ret |-> PyNone]
      ELSE LET key == d.keys[Len(d.keys)]
           IN  [h |-> HeapDelItem(h, self.self, key), exc |-> NoExc,
                ret |-> PyTuple(<<PyStr(key), d.vals[key]>>)]

\* get that takes a stored None for a missing value.
get_default_for_none(h, self, key, default, strict) ==
  IF key \notin DOMAIN h[OPTIONS].vals
  THEN IF strict THEN [exc |-> Exc("ValueError", "non-existent option", key), ret |-> PyNone]
       ELSE [exc |-> NoExc, ret |-> default]
  ELSE [exc |-> NoExc,
        ret |-> IF h[self.self].vals[key] = PyNone THEN default ELSE h[self.self].vals[key]]

\* Configuration.get(key, default, strict), also __getitem__: the value
\* returned or the exception raised; KeyError when dict.__getitem__ misses.
get(h, self, key, default, strict) ==
  IF key \notin DOMAIN h[OPTIONS].vals
  THEN IF strict THEN [exc |-> Exc("ValueError", "non-existent option", key), ret |-> PyNone]
       ELSE [exc |-> NoExc, ret |-> default]
  ELSE IF key \in DOMAIN h[self.self].vals
       THEN [exc |-> NoExc, ret |-> h[self.self].vals[key]]
       ELSE [exc |-> Exc("KeyError", "", key), ret |-> PyNone]

\* set without the check of the key.
set_unchecked(h, self, key, value) ==
  [h |-> HeapSetItem(h, self.self, key, value), exc |-> NoExc]

\* set that records the value in self._user_options too.
set_recording(h, self, key, value) ==
  IF key \notin DOMAIN h[OPTIONS].vals
  THEN [h |-> h, exc |-> Exc("ValueError", "non-existent option", key)]
  ELSE [h |-> HeapSetItem(HeapSetItem(h, self.self, key, value), self.user, key, value),
        exc |-> NoExc]

\* Configuration.set(key, value), also __setitem__
set(h, self, key, value) ==
  IF key \notin DOMAIN h[OPTIONS].vals
  THEN [h |-> h, exc |-> Exc("ValueError", "non-existent option", key)]
  ELSE [h |-> HeapSetItem(h, self.self, key, value), exc |-> NoExc]

\* **d, also d.items(): the items of dict d in d's insertion order.
Items(d) == [i \in 1..Len(d.keys) |-> Item(d.keys[i], d.vals[d.keys[i]])]

\* merge that updates self._user_options in place instead of a copy of it.
merge_in_place(h, self, other) ==
  LET h1 == HeapUpdate(h, self.user, other.user)
  IN  Configuration(h1, <<>>, Items(h1[self.user]))

\* merge that lets self's options win over other's.
merge_self_wins(h, self, other) ==
  LET config_options == copy_copy(h, other.user)
      h1 == HeapUpdate(config_options.h, config_options.a, self.user)
  IN  Configuration(h1, <<>>, Items(h1[config_options.a]))

\* Configuration.merge(self, other)
merge(h, self, other) ==
  LET config_options == copy_copy(h, self.user)
      h1 == HeapUpdate(config_options.h, config_options.a, other.user)
  IN  Configuration(h1, <<>>, Items(h1[config_options.a]))

\* merge_all's loop: for other in reversed(others), from others[i] down.
RECURSIVE merge_all_loop(_, _, _, _)
merge_all_loop(h, options, others, i) ==
  IF i < 1 THEN h
  ELSE merge_all_loop(HeapUpdate(h, options, others[i].user), options, others, i - 1)

\* Configuration.merge_all(self, *others)
merge_all(h, self, others) ==
  LET options == copy_copy(h, self.user)
      h1 == merge_all_loop(options.h, options.a, others, Len(others))
  IN  Configuration(h1, <<>>, Items(h1[options.a]))

\* Configuration.as_dict(): a new dict of the items
as_dict(h, self) == h[self.self]

\* The truth test taking the empty string for a value.
Falsy_none_only(value) == value = PyNone

\* os.getenv(key, None)
os_getenv(e, key) == IF key \in DOMAIN e THEN PyStr(e[key]) ELSE PyNone

\* not value, for a str or None
Falsy(value) == value = PyNone \/ value = PyStr("")

\* getenv's loop: for key in keys, from keys[i].
RECURSIVE getenv_loop(_, _, _, _, _, _)
getenv_loop(e, config, keys, default, drop_null, i) ==
  IF i > Len(keys) THEN config
  ELSE LET value == os_getenv(e, keys[i])
       IN  IF drop_null /\ (Falsy(value) \/ value = PyNone)
           THEN getenv_loop(e, config, keys, default, drop_null, i + 1)
           ELSE getenv_loop(e,
                            DictSetItem(config, keys[i],
                                        IF value # PyNone THEN value ELSE default),
                            keys, default, drop_null, i + 1)

\* getenv(keys, default, drop_null) for a list of keys: the dict it returns.
getenv(e, keys, default, drop_null) ==
  IF Len(keys) = 0 THEN EmptyDict
  ELSE getenv_loop(e, EmptyDict, keys, default, drop_null, 1)

\* getenv(keys, default, drop_null) for keys a str: one name, none when empty.
getenv_str(e, keys, default, drop_null) ==
  IF keys = "" THEN EmptyDict
  ELSE getenv(e, <<keys>>, default, drop_null)

\* from_env that keeps the names without a value.
from_env_keep_null(h, e, default, drop_null) ==
  Configuration(h, <<>>, Items(getenv(e, keylist(h), default, FALSE)))

\* Configuration.from_env(default, drop_null)
from_env(h, e, default, drop_null) ==
  Configuration(h, <<>>, Items(getenv(e, keylist(h), default, drop_null)))

\* _update_from_env that keeps the names without a value.
update_from_env_keep_null(h, e, self, default, drop_null) ==
  LET d == Alloc(h, getenv(e, keylist(h), default, FALSE))
  IN  [h |-> HeapUpdate(d.h, self.self, d.a), exc |-> NoExc]

\* Configuration._update_from_env(default, drop_null)
_update_from_env(h, e, self, default, drop_null) ==
  LET d == Alloc(h, getenv(e, keylist(h), default, drop_null))
  IN  [h |-> HeapUpdate(d.h, self.self, d.a), exc |-> NoExc]

\* ------------------------------------------------------------------- JSON

\* A JSON text is a sequence of tokens.
Punct(c) == [t |-> "punct", n |-> 0, s |-> c]
JNull == [t |-> "null", n |-> 0, s |-> ""]
JTrue == [t |-> "true", n |-> 0, s |-> ""]
JFalse == [t |-> "false", n |-> 0, s |-> ""]
JNumber(i) == [t |-> "number", n |-> i, s |-> ""]
JString(x) == [t |-> "string", n |-> 0, s |-> x]

IsScalarToken(tok) == tok.t \in {"null", "true", "false", "number", "string"}

\* The Python value of a scalar token.
json_scalar(tok) ==
  CASE tok.t = "null" -> PyNone
    [] tok.t = "true" -> PyBool(TRUE)
    [] tok.t = "false" -> PyBool(FALSE)
    [] tok.t = "number" -> PyInt(tok.n)
    [] OTHER -> PyStr(tok.s)

\* options[k] = v on a dict kept in insertion order
OrderedSetItem(items, k, v) ==
  IF \E i \in 1..Len(items) : items[i].k = k
  THEN [i \in 1..Len(items) |-> IF items[i].k = k THEN Item(k, v) ELSE items[i]]
  ELSE Append(items, Item(k, v))

\* A dict and a list as values: d is a dict of the model, l the sequence of
\* the elements.  No operation of the model changes a value held in a dict,
\* so a nested value is held by value.
PyDict(d) == [kind |-> "dict", n |-> 0, s |-> "", d |-> d]
PyList(l) == [kind |-> "list", n |-> 0, s |-> "", l |-> l]

JSONDecodeError == Exc("JSONDecodeError", "invalid JSON", "")

\* What the decoder makes of the text from token i on: the value and the
\* place after it, or the error.
Decoded(exc, ret, i) == [exc |-> exc, ret |-> ret, i |-> i]

RECURSIVE json_value(_, _)
RECURSIVE json_members(_, _, _)
RECURSIVE json_elements(_, _, _)

\* The value that starts at token i: a scalar, an object or an array.
json_value(text, i) ==
  IF i > Len(text) THEN Decoded(JSONDecodeError, PyNone, i)
  ELSE IF IsScalarToken(text[i]) THEN Decoded(NoExc, json_scalar(text[i]), i + 1)
  ELSE IF text[i] = Punct("{")
       THEN IF i < Len(text) /\ text[i + 1] = Punct("}")
            THEN Decoded(NoExc, PyDict(EmptyDict), i + 2)
            ELSE json_members(text, i + 1, EmptyDict)
  ELSE IF text[i] = Punct("[")
       THEN IF i < Len(text) /\ text[i + 1] = Punct("]")
            THEN Decoded(NoExc, PyList(<<>>), i + 2)
            ELSE json_elements(text, i + 1, <<>>)
  ELSE Decoded(JSONDecodeError, PyNone, i)

\* The members of an object from token i on: "key" : value, then , or }.  A
\* key met again keeps its place and takes the later value.
json_members(text, i, d) ==
  IF i + 1 > Len(text) \/ text[i].t # "string" \/ text[i + 1] # Punct(":")
  THEN Decoded(JSONDecodeError, PyNone, i)
  ELSE LET v == json_value(text, i + 2)
       IN  IF v.exc # NoExc THEN v
           ELSE IF v.i > Len(text) THEN Decoded(JSONDecodeError, PyNone, v.i)
           ELSE IF text[v.i] = Punct("}")
                THEN Decoded(NoExc, PyDict(DictSetItem(d, text[i].s, v.ret)), v.i + 1)
           ELSE IF text[v.i] = Punct(",")
                THEN json_members(text, v.i + 1, DictSetItem(d, text[i].s, v.ret))
           ELSE Decoded(JSONDecodeError, PyNone, v.i)

\* The elements of an array from token i on: value, then , or ].
json_elements(text, i, l) ==
  LET v == json_value(text, i)
  IN  IF v.exc # NoExc THEN v
      ELSE IF v.i > Len(text) THEN Decoded(JSONDecodeError, PyNone, v.i)
      ELSE IF text[v.i] = Punct("]")
           THEN Decoded(NoExc, PyList(Append(l, v.ret)), v.i + 1)
      ELSE IF text[v.i] = Punct(",")
           THEN json_elements(text, v.i + 1, Append(l, v.ret))
      ELSE Decoded(JSONDecodeError, PyNone, v.i)

\* A JSON document without white space: one value and nothing after it.
json_document(text) ==
  LET v == json_value(text, 1)
  IN  IF v.exc # NoExc THEN [exc |-> v.exc, ret |-> PyNone]
      ELSE IF v.i <= Len(text) THEN [exc |-> JSONDecodeError, ret |-> PyNone]
      ELSE [exc |-> NoExc, ret |-> v.ret]

\* White space between the tokens of a text: a blank, a tab, a newline or a
\* carriage return.
WhiteSpace == {" ", "\t", "\n", "\r"}
JWhite(c) == [t |-> "space", n |-> 0, s |-> c]
JSpace == JWhite("\n")
NotSpace(tok) == tok.t # "space"

\* json.loads / json.load: white space around tokens is skipped.
json_loads(text) == json_document(SelectSeq(text, NotSpace))

\* What the encoder has written when it ends: out is the text so far, exc the
\* exception that ended it.
Encoded(exc, out) == [exc |-> exc, out |-> out]

\* The encoder writing every value that is not None as a string.
json_token_str(v) ==
  IF v.kind = "NoneType" THEN Encoded(NoExc, <<JNull>>)
  ELSE IF v.kind = "bool"
       THEN Encoded(NoExc, <<JString(IF v.n = 1 THEN "True" ELSE "False")>>)
  ELSE IF v.kind = "int" THEN Encoded(NoExc, <<JString("int")>>)
  ELSE Encoded(NoExc, <<JString(v.s)>>)

\* The encoder on a value that is no dict, no list and no tuple: the token of
\* None, a bool, an int or a str; TypeError from JSONEncoder.default for any
\* other.
json_token(v) ==
  CASE v.kind = "NoneType" -> Encoded(NoExc, <<JNull>>)
    [] v.kind = "bool" -> Encoded(NoExc, <<IF v.n = 1 THEN JTrue ELSE JFalse>>)
    [] v.kind = "int" -> Encoded(NoExc, <<JNumber(v.n)>>)
    [] v.kind = "str" -> Encoded(NoExc, <<JString(v.s)>>)
    [] OTHER -> Encoded(Exc("TypeError", "Object is not JSON serializable", v.kind), <<>>)

RECURSIVE json_encode(_)
RECURSIVE json_dumps_members(_, _)
RECURSIVE json_dumps_elements(_, _)

\* The text of a value; Punct(",") and Punct(":") stand for the separators
\* ", " and ": ".  When a value cannot be written the text ends before it.
json_encode(v) ==
  IF v.kind = "dict"
  THEN LET m == json_dumps_members(Items(v.d), 1)
       IN  Encoded(m.exc, <<Punct("{")>> \o m.out
                          \o (IF m.exc = NoExc THEN <<Punct("}")>> ELSE <<>>))
  ELSE IF v.kind \in {"list", "tuple"}
       THEN LET e == json_dumps_elements(v.l, 1)
            IN  Encoded(e.exc, <<Punct("[")>> \o e.out
                               \o (IF e.exc = NoExc THEN <<Punct("]")>> ELSE <<>>))
       ELSE json_token(v)

\* The members of an object from item i on: "key": value, separated by commas.
json_dumps_members(items, i) ==
  IF i > Len(items) THEN Encoded(NoExc, <<>>)
  ELSE LET head == (IF i > 1 THEN <<Punct(",")>> ELSE <<>>)
                   \o <<JString(items[i].k), Punct(":")>>
           value == json_encode(items[i].v)
       IN  IF value.exc # NoExc THEN Encoded(value.exc, head \o value.out)
           ELSE LET rest == json_dumps_members(items, i + 1)
                IN  Encoded(rest.exc, head \o value.out \o rest.out)

\* The elements of an array from element i on, separated by commas.
json_dumps_elements(l, i) ==
  IF i > Len(l) THEN Encoded(NoExc, <<>>)
  ELSE LET head == IF i > 1 THEN <<Punct(",")>> ELSE <<>>
           value == json_encode(l[i])
       IN  IF value.exc # NoExc THEN Encoded(value.exc, head \o value.out)
           ELSE LET rest == json_dumps_elements(l, i + 1)
                IN  Encoded(rest.exc, head \o value.out \o rest.out)

\* json.dumps(d) and json.dump(d, fd) for a dict with the items given, in
\* their order: the text, whole when exc is NoExc.
json_dumps(items) ==
  LET m == json_dumps_members(items, 1)
  IN  Encoded(m.exc, <<Punct("{")>> \o m.out
                     \o (IF m.exc = NoExc THEN <<Punct("}")>> ELSE <<>>))

\* Configuration.as_string(): json.dumps(self), the text returned or the
\* exception raised.
as_string(h, self) ==
  LET r == json_dumps(Items(h[self.self]))
  IN  Encoded(r.exc, IF r.exc = NoExc THEN r.out ELSE <<>>)

\* A str written to a text: white space when every character of it is a
\* white space character.
Written(t) ==
  IF \A i \in 1..Len(t) : SubSeq(t, i, i) \in WhiteSpace
  THEN JWhite(t)
  ELSE [t |-> "other", n |-> 0, s |-> t]

\* fd.write(end) after json.dump: if end and end is not None.
dump_end(end) ==
  IF end # PyNone /\ end # PyStr("") THEN <<Written(end.s)>> ELSE <<>>

\* json.dump(obj, fd) writes the text in pieces, one fd.write for each piece
\* the encoder yields.  A piece is a sequence of tokens.

\* The pieces joined: the text fd holds after the writes.
RECURSIVE Joined(_)
Joined(pieces) == IF pieces = <<>> THEN <<>> ELSE Head(pieces) \o Joined(Tail(pieces))

\* The values the encoder writes in one piece.
IsScalarValue(v) == v.kind \in {"NoneType", "bool", "int", "str"}

RECURSIVE json_chunks(_)
RECURSIVE json_chunks_dict(_, _)
RECURSIVE json_chunks_list(_, _)

\* _iterencode(o): the pieces of a value, and the exception raised after them
\* when a value cannot be written.  "{}" and "[]" are one piece each.
json_chunks(v) ==
  IF v.kind = "dict"
  THEN IF v.d.keys = <<>> THEN Encoded(NoExc, << <<Punct("{"), Punct("}")>> >>)
       ELSE LET m == json_chunks_dict(Items(v.d), 1)
            IN  Encoded(m.exc, << <<Punct("{")>> >> \o m.out
                               \o (IF m.exc = NoExc THEN << <<Punct("}")>> >> ELSE <<>>))
  ELSE IF v.kind \in {"list", "tuple"}
  THEN IF v.l = <<>> THEN Encoded(NoExc, << <<Punct("["), Punct("]")>> >>)
       ELSE LET e == json_chunks_list(v.l, 1)
            IN  Encoded(e.exc, e.out \o (IF e.exc = NoExc THEN << <<Punct("]")>> >> ELSE <<>>))
  ELSE LET t == json_token(v)
       IN  Encoded(t.exc, IF t.exc = NoExc THEN <<t.out>> ELSE <<>>)

\* The pieces of one item of a dict: the separator before every item but the
\* first, the key, the colon, and the pieces of the value.
json_chunks_item(first, key, value) ==
  LET head == (IF first THEN <<>> ELSE << <<Punct(",")>> >>)
                \o << <<JString(key)>>, <<Punct(":")>> >>
      chunks == json_chunks(value)
  IN  Encoded(chunks.exc, head \o chunks.out)

\* _iterencode_dict from item i on.
json_chunks_dict(items, i) ==
  IF i > Len(items) THEN Encoded(NoExc, <<>>)
  ELSE LET item == json_chunks_item(i = 1, items[i].k, items[i].v)
       IN  IF item.exc # NoExc THEN item
           ELSE LET rest == json_chunks_dict(items, i + 1)
                IN  Encoded(rest.exc, item.out \o rest.out)

\* _iterencode_list from element i on: "[" or the separator goes with the
\* element in one piece when the element is None, a bool, an int or a str,
\* and is a piece of its own before any other element.
json_chunks_list(l, i) ==
  IF i > Len(l) THEN Encoded(NoExc, <<>>)
  ELSE LET buf == IF i = 1 THEN <<Punct("[")>> ELSE <<Punct(",")>>
           value == IF IsScalarValue(l[i])
                    THEN Encoded(NoExc, <<buf \o json_token(l[i]).out>>)
                    ELSE LET chunks == json_chunks(l[i])
                         IN  Encoded(chunks.exc, <<buf>> \o chunks.out)
       IN  IF value.exc # NoExc THEN value
           ELSE LET rest == json_chunks_list(l, i + 1)
                IN  Encoded(rest.exc, value.out \o rest.out)

\* A dump under way.  json.dump asks the encoder for the next piece and gives
\* it to fd.write, piece after piece; fd is the caller's stream, so other
\* code of the program may run inside each fd.write.  The encoder asks the
\* dict for its next item when the pieces of the item before are written, so
\* what that code does to the instance is seen from the next item on.  end
\* is the keyword of dump; stage is "open" while the encoder goes through
\* the dict, "closed" when it has written the closing brace (or "{}"), and
\* "ended" when end is written; made tells that the encoder has its
\* iterator, iter(dct.items()), used is the size the dict had then, len the
\* number of items the iterator may still give, pos the number of items of
\* the dict it is past; removed tells that a key was taken from the dict
\* since the last item was asked for; pending are the pieces of the item
\* asked for last that are not written yet, and exc the exception the encoder
\* raises after them; out are the pieces written, one for each fd.write.
Stream(end, stage, made, used, len, pos, removed, pending, exc, out) ==
  [end |-> end, stage |-> stage, made |-> made, used |-> used, len |-> len,
   pos |-> pos, removed |-> removed, pending |-> pending, exc |-> exc, out |-> out]

\* How a step of dump ended: done when dump has returned or raised.
Dumping(done, exc, st) == [done |-> done, exc |-> exc, st |-> st]

\* dump as far as its first fd.write: the encoder yields "{}" for an empty
\* dict and "{" for any other.
dump_start(h, self, end) ==
  IF h[self.self].keys = <<>>
  THEN Stream(end, "closed", FALSE, 0, 0, 0, FALSE, <<>>, NoExc,
              << <<Punct("{"), Punct("}")>> >>)
  ELSE Stream(end, "open", FALSE, 0, 0, 0, FALSE, <<>>, NoExc, << <<Punct("{")>> >>)

\* The places the iterator may be at when it is asked for an item.  A dict
\* that lost a key and has its size again was changed under the iterator:
\* the iterator goes on from its place in the table of entries, which may be
\* any place among the items the dict has now.
dump_positions(h, self, st) ==
  IF st.stage = "open" /\ st.pending = <<>> /\ st.exc = NoExc /\ st.made /\ st.removed
  THEN 0..Len(h[self.self].keys)
  ELSE {IF st.made THEN st.pos ELSE 0}

\* The encoder asked for the first piece of the next item, the iterator
\* being at pos: RuntimeError when the size of the dict is not the size it
\* had when the iterator was made, or when there is an item more than the
\* iterator was to give; the closing brace after the last item; else the
\* pieces of the item, of which the first is written.
dump_item(h, self, st, pos) ==
  LET d == h[self.self]
      used == IF st.made THEN st.used ELSE Len(d.keys)
      len == IF st.made THEN st.len ELSE Len(d.keys)
  IN  IF Len(d.keys) # used
      THEN Dumping(TRUE, Exc("RuntimeError", "dictionary changed size during iteration", ""),
                   st)
      ELSE IF pos >= Len(d.keys)
      THEN Dumping(FALSE, NoExc,
                   [st EXCEPT !.stage = "closed", !.out = Append(@, <<Punct("}")>>)])
      ELSE IF len = 0
      THEN Dumping(TRUE, Exc("RuntimeError", "dictionary keys changed during iteration", ""),
                   st)
      ELSE LET key == d.keys[pos + 1]
               item == json_chunks_item(len = used, key, d.vals[key])
           IN  Dumping(FALSE, NoExc,
                       Stream(st.end, "open", TRUE, used, len - 1, pos + 1, FALSE,
                              Tail(item.out), item.exc, Append(st.out, Head(item.out))))

\* dump from one fd.write to the next, or to its end: the next piece of the
\* item under way is written; or the encoder raises; or the next item is
\* asked for; or, the text closed, end is written (if end and end is not
\* None); or dump returns.
dump_next(h, self, st, pos) ==
  IF st.pending # <<>>
  THEN Dumping(FALSE, NoExc,
               [st EXCEPT !.pending = Tail(@), !.out = Append(@, Head(st.pending))])
  ELSE IF st.exc # NoExc THEN Dumping(TRUE, st.exc, st)
  ELSE IF st.stage = "open" THEN dump_item(h, self, st, pos)
  ELSE IF st.stage = "closed" /\ dump_end(st.end) # <<>>
  THEN Dumping(FALSE, NoExc, [st EXCEPT !.stage = "ended", !.out = Append(@, dump_end(st.end))])
  ELSE Dumping(TRUE, NoExc, st)

\* dump with nothing done to the instance while it runs.
RECURSIVE dump_run(_, _, _)
dump_run(h, self, r) ==
  IF r.done THEN Encoded(r.exc, r.st.out)
  ELSE dump_run(h, self, dump_next(h, self, r.st, r.st.pos))

\* Configuration.dump(fd, end=end) when no other code runs while it writes:
\* the pieces written to fd and the exception raised; end is a str or None,
\* and is not written after an exception.
dump(h, self, end) == dump_run(h, self, Dumping(FALSE, NoExc, dump_start(h, self, end)))

\* No dump under way.
NoStream ==
  [self |-> 0, st |-> Stream(PyNone, "ended", FALSE, 0, 0, 0, FALSE, <<>>, NoExc, <<>>)]

\* The dump under way after another call of the program left heap h2 and
\* instances c2: a key taken from the instance that is dumped is recorded.
Watched(f, h2, c2) ==
  IF f.self = 0 THEN f
  ELSE [f EXCEPT !.st.removed =
          @ \/ ~(DOMAIN heap[confs[f.self].self].vals
                   \subseteq DOMAIN h2[c2[f.self].self].vals)]

\* ---------------------------------------------------- the named constructors

\* A call that raised before any Configuration was made.
Raised(h, exc) == [h |-> h, exc |-> exc, ret |-> [self |-> OPTIONS, user |-> OPTIONS]]

\* from_dict's loop over a list: key is an element and value[key] indexes the
\* list with it, from element i: the first exception, NoExc when there is none.
RECURSIVE from_dict_list(_, _)
from_dict_list(l, i) ==
  IF i > Len(l) THEN NoExc
  ELSE IF l[i].kind \notin {"int", "bool"}
       THEN Exc("TypeError", "list indices must be integers or slices", l[i].kind)
       ELSE IF l[i].n < -Len(l) \/ l[i].n >= Len(l)
            THEN Exc("IndexError", "list index out of range", "")
            ELSE from_dict_list(l, i + 1)

\* from_dict's loop over a parsed value: for key in value: options[key] =
\* value[key], then cls(**options).  An empty list and an empty str have
\* nothing to loop over; the keys a list gives are ints, no keywords.
from_dict_value(h, value) ==
  IF value.kind = "dict" THEN Configuration(h, <<>>, Items(value.d))
  ELSE IF value.kind = "list"
       THEN IF value.l = <<>> THEN Configuration(h, <<>>, <<>>)
            ELSE IF from_dict_list(value.l, 1) # NoExc
                 THEN Raised(h, from_dict_list(value.l, 1))
                 ELSE Raised(h, Exc("TypeError", "keywords must be strings", ""))
  ELSE IF value = PyStr("") THEN Configuration(h, <<>>, <<>>)
       ELSE Raised(h, Exc("TypeError", "not a mapping", ""))

\* Configuration.from_dict(value): value a dict ([kind |-> "dict", items]) or a
\* str holding JSON ([kind |-> "str", text]).
from_dict(h, value) ==
  IF value.kind = "str"
  THEN LET parsed == json_loads(value.text)
       IN  IF parsed.exc # NoExc THEN Raised(h, parsed.exc)
           ELSE from_dict_value(h, parsed.ret)
  ELSE Configuration(h, <<>>, value.items)

\* from_file that takes a file it cannot read or parse for an empty one.
from_file_lenient(h, fs, value) ==
  IF value \notin DOMAIN fs \/ json_loads(fs[value]).exc # NoExc
     \/ json_loads(fs[value]).ret.kind # "dict"
  THEN Configuration(h, <<>>, <<>>)
  ELSE Configuration(h, <<>>, Items(json_loads(fs[value]).ret.d))

\* Configuration.from_file(value): fs maps the paths that exist to their text.
from_file(h, fs, value) ==
  IF value \notin DOMAIN fs
  THEN Raised(h, Exc("FileNotFoundError", "No such file or directory", value))
  ELSE LET content == json_loads(fs[value])
       IN  IF content.exc # NoExc THEN Raised(h, content.exc)
           ELSE IF content.ret.kind # "dict"
                THEN Raised(h, Exc("TypeError", "argument after ** must be a mapping", ""))
                ELSE Configuration(h, <<>>, Items(content.ret.d))

\* The cased characters of ASCII, which the names of the program are written
\* in: the upper-case letters and, place for place, the lower-case ones.
UpperCase == "ABCDEFGHIJKLMNOPQRSTUVWXYZ"
LowerCase == "abcdefghijklmnopqrstuvwxyz"

\* Character i of a str, and the first and the last place of a character in a
\* str (0: not there).
CharAt(s, i) == SubSeq(s, i, i)
Find(s, c) ==
  IF \E i \in 1..Len(s) : CharAt(s, i) = c
  THEN CHOOSE i \in 1..Len(s) :
         CharAt(s, i) = c /\ \A j \in 1..(i - 1) : CharAt(s, j) # c
  ELSE 0
RFind(s, c) ==
  IF \E i \in 1..Len(s) : CharAt(s, i) = c
  THEN CHOOSE i \in 1..Len(s) :
         CharAt(s, i) = c /\ \A j \in (i + 1)..Len(s) : CharAt(s, j) # c
  ELSE 0

\* str.replace(old, new) for a character old.
RECURSIVE str_replace(_, _, _)
str_replace(s, old, new) ==
  IF s = "" THEN ""
  ELSE (IF CharAt(s, 1) = old THEN new ELSE CharAt(s, 1))
         \o str_replace(SubSeq(s, 2, Len(s)), old, new)

\* str.isupper(): there is a cased character and no cased character is in
\* lower case.
str_isupper(name) ==
  /\ \E i \in 1..Len(name) : Find(UpperCase, CharAt(name, i)) # 0
  /\ \A i \in 1..Len(name) : Find(LowerCase, CharAt(name, i)) = 0

\* str.lower(): every upper-case character replaced by its lower-case one.
RECURSIVE str_lower(_)
str_lower(name) ==
  IF name = "" THEN ""
  ELSE LET n == Find(UpperCase, CharAt(name, 1))
       IN  (IF n = 0 THEN CharAt(name, 1) ELSE CharAt(LowerCase, n))
             \o str_lower(SubSeq(name, 2, Len(name)))

\* The loop copying every attribute, lower-cased.
RECURSIVE from_object_loop_all(_, _, _)
from_object_loop_all(attrs, options, i) ==
  IF i > Len(attrs) THEN options
  ELSE from_object_loop_all(attrs,
                            OrderedSetItem(options, str_lower(attrs[i].k), attrs[i].v),
                            i + 1)

\* from_object's loop: for key in dir(value), from attribute i.
RECURSIVE from_object_loop(_, _, _)
from_object_loop(attrs, options, i) ==
  IF i > Len(attrs) THEN options
  ELSE from_object_loop(attrs,
                        IF str_isupper(attrs[i].k)
                        THEN OrderedSetItem(options, str_lower(attrs[i].k), attrs[i].v)
                        ELSE options,
                        i + 1)

\* Configuration.from_object(value) for an object: its attributes in dir() order.
from_object(h, value) == Configuration(h, <<>>, from_object_loop(value, <<>>, 1))

\* ------------------------------------------------------------ import_string

\* A module, a class or another object as a value: s is its dotted name.
PyObj(name) == [kind |-> "object", n |-> 0, s |-> name]

\* sys.modules after a successful __import__: the modules there are to import.
Importable == {"settings"}

\* dir(obj) with the values of the attributes, for the object of a dotted name.
Dir(name) ==
  CASE name = "settings" ->
         <<Item("CLIENT_CERT", PyStr("B")), Item("Config", PyObj("settings.Config")),
           Item("Debug", PyObj("settings.Debug")), Item("__doc__", PyStr("settings")),
           Item("retries", PyInt(7))>>
    [] name = "settings.Config" ->
         <<Item("PROXIES", PyStr("C")), Item("__doc__", PyStr("Config Object"))>>
    [] name = "settings.Debug" ->
         <<Item("DEBUG", PyBool(TRUE)), Item("PROXIES", PyStr("B"))>>
    [] OTHER -> <<>>

\* An import name: the str given, text_type(name).replace(":", "."), and what
\* rsplit(".", 1) makes of that (the name itself for tail when there is no
\* dot in it).
ImportName(text, dotted, head, tail) ==
  [text |-> text, dotted |-> dotted, head |-> head, tail |-> tail]

import_name(text) ==
  LET dotted == str_replace(text, ":", ".")
      dot == RFind(dotted, ".")
  IN  ImportName(text, dotted, SubSeq(dotted, 1, dot - 1),
                 SubSeq(dotted, dot + 1, Len(dotted)))

\* value bound to the parameter of F, evaluated once.
Once(value, F(_)) == CHOOSE y \in {F(x) : x \in {value}} : TRUE

\* How an import ended: the exception it raised and sys.modules after it.
Imported(exc, mods) == [exc |-> exc, modules |-> mods]

ModuleNotFoundError(name) == Exc("ModuleNotFoundError", "No module named", name)

\* __import__(name) and, with fromlist, __import__(name, globals(), locals(),
\* [obj_name]) when sys.modules holds mods.  A name in sys.modules is not
\* looked for again; the parent of a dotted name is imported first, with
\* __import__(parent), and as no module there is to import is a package,
\* nothing is found under a parent; a name without a parent is looked for by
\* what follows its last dot.  Without fromlist the top-level package is
\* returned: what stands before the first dot is imported.
RECURSIVE import_module(_, _, _)
import_module(mods, name, fromlist) ==
  IF name = "" THEN Imported(Exc("ValueError", "Empty module name", ""), mods)
  ELSE LET dot == RFind(name, ".")
           parent == SubSeq(name, 1, dot - 1)
           above == IF parent \in mods THEN Imported(NoExc, mods)
                    ELSE import_module(mods, parent, FALSE)
           found == IF name \in mods THEN Imported(NoExc, mods)
                    ELSE IF parent # ""
                         THEN IF above.exc # NoExc THEN above
                              ELSE Imported(ModuleNotFoundError(name), above.modules)
                    ELSE IF SubSeq(name, dot + 1, Len(name)) \in Importable
                         THEN Imported(NoExc, mods \cup {name})
                         ELSE Imported(ModuleNotFoundError(name), mods)
       IN  IF found.exc # NoExc \/ fromlist \/ Find(name, ".") = 0 THEN found
           ELSE import_module(found.modules, SubSeq(name, 1, Find(name, ".") - 1), FALSE)

\* isinstance(e, ImportError)
IsImportError(e) == e.type \in {"ImportError", "ModuleNotFoundError"}

\* six.reraise(tp, value, tb) on Python 3 with a value: raise
\* value.with_traceback(tb); tp is not looked at.  What is raised.
reraise(tp, value) == value

\* getattr(module, obj_name): the value, or AttributeError.  The attributes
\* of a module are those of the file it was loaded from, which is named by
\* what follows the last dot of the module's name.
module_getattr(module, obj_name) ==
  LET attrs == Dir(SubSeq(module, RFind(module, ".") + 1, Len(module)))
      at == {i \in 1..Len(attrs) : attrs[i].k = obj_name}
  IN  IF at = {} THEN [exc |-> Exc("AttributeError", "module has no attribute", obj_name),
                       ret |-> PyNone]
      ELSE [exc |-> NoExc, ret |-> attrs[CHOOSE i \in at : TRUE].v]

\* What import_string returned or raised, and sys.modules after it.
Looked(exc, ret, mods) == [exc |-> exc, ret |-> ret, modules |-> mods]

\* import_string, the inner part: what it returns or raises inside the outer
\* try.  The except ImportError of the first __import__ lets any other
\* exception pass, and raises again for a name without a dot.
import_string_try(mods, name) ==
  LET first == import_module(mods, name.dotted, FALSE)
  IN  IF first.exc = NoExc THEN Looked(NoExc, PyObj(name.dotted), first.modules)
      ELSE IF ~IsImportError(first.exc) \/ Find(name.dotted, ".") = 0
           THEN Looked(first.exc, PyNone, first.modules)
      ELSE LET second == import_module(first.modules, name.head, TRUE)
           IN  IF second.exc # NoExc THEN Looked(second.exc, PyNone, second.modules)
               ELSE LET got == module_getattr(name.head, name.tail)
                    IN  IF got.exc = NoExc THEN Looked(NoExc, got.ret, second.modules)
                        ELSE Looked(reraise("ImportError", got.exc), PyNone,
                                    second.modules)

\* import_string(import_name, silent): except ImportError as e wraps e in
\* ImportStringError(import_name, e) (msg holds the class name of e, key the
\* import name) unless silent, and then None is returned.
import_string(mods, name, silent) ==
  Once(import_string_try(mods, name), LAMBDA r :
    IF r.exc = NoExc \/ ~IsImportError(r.exc) THEN r
    ELSE IF silent THEN Looked(NoExc, PyNone, r.modules)
         ELSE Looked(Exc("ImportStringError", r.exc.type, name.dotted), PyNone,
                     r.modules))

\* Configuration.from_object(value) for a str: the object imported, then its
\* attributes (dir(None) has no upper-case name).
from_object_str(h, mods, name) ==
  Once(import_string(mods, name, FALSE), LAMBDA r :
    Once(IF r.exc # NoExc THEN Raised(h, r.exc)
         ELSE from_object(h, IF r.ret.kind = "object" THEN Dir(r.ret.s) ELSE <<>>),
         LAMBDA made :
           [h |-> made.h, exc |-> made.exc, ret |-> made.ret, modules |-> r.modules]))

\* ------------------------------------------------- reachability of objects

\* The addresses a list of instances holds, OPTIONS first.
Roots(cs) ==
  <<OPTIONS>> \o [j \in 1..(2 * Len(cs)) |->
                    IF j % 2 = 1 THEN cs[(j + 1) \div 2].self ELSE cs[j \div 2].user]

\* Garbage collection: the objects reachable from the class and the instances
\* cs, renumbered in the order of Roots (an object keeps one address however
\* many references to it there are).
Collect(h, cs) ==
  LET R == Roots(cs)
      New(a) == (CHOOSE j \in 1..Len(R) : R[j] = a /\ \A i \in 1..(j - 1) : R[i] # a) - 1
      Kept == {New(R[j]) : j \in 1..Len(R)}
  IN  [heap  |-> [n \in Kept |-> h[R[n + 1]]],
       confs |-> [i \in 1..Len(cs) |-> [self |-> New(cs[i].self), user |-> New(cs[i].user)]]]

\* ------------------------------------------------------------------ calls

\* What the last call was and how it ended; seq counts the calls made so far.
\* res is the index of a Configuration returned, ret a value returned, out a
\* text returned or written, map a dict returned.
Call(op, args, kwargs, self, others, key, value, exc, res) ==
  [op |-> op, args |-> args, kwargs |-> kwargs, self |-> self, others |-> others,
   key |-> key, value |-> value, exc |-> exc, res |-> res, seq |-> call.seq + 1,
   ret |-> PyNone, out |-> <<>>, map |-> EmptyDict]

NoCall(op) ==
  [op |-> op, args |-> <<>>, kwargs |-> <<>>, self |-> 0, others |-> <<>>,
   key |-> "", value |-> PyNone, exc |-> NoExc, res |-> 0, seq |-> 0,
   ret |-> PyNone, out |-> <<>>, map |-> EmptyDict]

\* The state after a call that ended with heap h: a returned instance is kept.
Finish(h, c, made) ==
  \E g \in {Collect(h, IF made THEN Append(confs, c) ELSE confs)} :
    heap' = g.heap /\ confs' = g.confs

\* The history of an instance just made by op with the options at address user.
Made(op, h, user) ==
  [merged |-> op \in {"merge", "merge_all"},
   explicit |-> DOMAIN h[user].vals, ever |-> DOMAIN h[user].vals]

\* A call op that returns a new Configuration, or raises: r is how it ended.
Returns(op, r, args, kwargs, self, others) ==
  /\ Finish(r.h, r.ret, r.exc = NoExc)
  /\ track' = IF r.exc = NoExc THEN Append(track, Made(op, r.h, r.ret.user)) ELSE track
  /\ call' = Call(op, args, kwargs, self, others, "", PyNone, r.exc,
                  IF r.exc = NoExc THEN Len(confs) + 1 ELSE 0)
  /\ UNCHANGED env

\* Configuration(*args, **kwargs) called by the program.
DoConstruct(args, kwargs) ==
  \E r \in {Configuration(heap, args, kwargs)} :
    Returns("Configuration", r, args, kwargs, 0, <<>>)

\* ------------------------------------------------------------------ inputs

VB == PyStr("B")
VC == PyStr("C")

\* n positional arguments: all "B", or the position itself.
PosArgs(n, numbered) == [i \in 1..n |-> IF numbered THEN PyInt(i) ELSE VB]

CtorArgs ==
  {PosArgs(n, b) : n \in 0..(Len(OptionsOrder) + MaxExtraArgs), b \in BOOLEAN}

\* Keyword names tried: the first, a middle and the last schema key, and two
\* names outside the schema.
CtorKeys == {"client_cert", "proxies", "verify", "bogus", "extra"}

RECURSIVE KwSeqs(_)
KwSeqs(n) ==
  IF n = 0 THEN {<<>>}
  ELSE LET S == KwSeqs(n - 1)
       IN  S \cup {Append(q, Item(k, v)) :
                     q \in {p \in S : Len(p) = n - 1}, k \in CtorKeys, v \in {VB, VC}}

\* Keyword lists: the names of one call are distinct.
CtorKwargs ==
  {q \in KwSeqs(MaxKw) : \A i, j \in 1..Len(q) : i # j => q[i].k # q[j].k}

\* Constructor calls of Spec: few, so that several instances fit.
SmallCalls ==
  { [args |-> <<>>,   kwargs |-> <<>>],
    [args |-> <<>>,   kwargs |-> <<Item("proxies", VB)>>],
    [args |-> <<VB>>, kwargs |-> <<Item("proxies", VC)>>],
    [args |-> <<>>,   kwargs |-> <<Item("bogus", VB)>>] }

\* ---------------------------------------------- the constructor on its own

\* The program before the call under study: nothing made yet, or one instance
\* made by one of the small calls.
Before ==
  {[heap |-> InitHeap, confs |-> <<>>, track |-> <<>>]} \cup
  { LET r == Configuration(InitHeap, c.args, c.kwargs)
        g == Collect(r.h, <<r.ret>>)
    IN  [heap |-> g.heap, confs |-> g.confs,
         track |-> <<Made("Configuration", r.h, r.ret.user)>>] :
      c \in {x \in SmallCalls : Configuration(InitHeap, x.args, x.kwargs).exc = NoExc} }

InitCtor ==
  /\ \E b \in Before : heap = b.heap /\ confs = b.confs /\ track = b.track
  /\ env = NoEnviron
  /\ \E args \in CtorArgs, kwargs \in CtorKwargs :
       call = [NoCall("pending") EXCEPT !.args = args, !.kwargs = kwargs]
  /\ modules = {}
  /\ fd = NoStream

\* The call under study.
CallConstructor ==
  /\ call.op = "pending"
  /\ DoConstruct(call.args, call.kwargs)

\* Configuration() after it.
CallDefault ==
  /\ call.op = "Configuration"
  /\ call.seq = 1
  /\ DoConstruct(<<>>, <<>>)

NextCtor ==
  /\ CallConstructor \/ CallDefault
  /\ UNCHANGED <<modules, fd>>

SpecCtor == InitCtor /\ [][NextCtor]_vars

\* --------------------------------------------------- the program at large

\* What the program stores with set.
SetKeys == {"proxies", "bogus"}
SetValues == {PyInt(7)}

\* The process environment: no option set, or client_cert set and proxies
\* set to the empty string.
Environments ==
  { [n \in {"PATH"} |-> "/bin"],
    [n \in {"PATH", "client_cert", "proxies"} |->
       IF n = "PATH" THEN "/bin" ELSE IF n = "client_cert" THEN "E" ELSE ""] }

\* The dicts and JSON strings given to from_dict.
DictInputs ==
  { [kind |-> "dict", items |-> <<Item("proxies", VC), Item("bogus", VB)>>, text |-> <<>>],
    [kind |-> "str", items |-> <<>>,
     text |-> <<Punct("{"), JString("proxies"), Punct(":"), JString("B"), Punct("}")>>] }

\* The objects given to from_object, as their attributes in dir() order.
ObjectInputs ==
  { <<Item("CLIENT_CERT", VB), Item("PROXIES", VC), Item("Verify", PyBool(TRUE)),
      Item("__doc__", PyStr("Config Object"))>> }

\* The files there are.
Files ==
  [path \in {"skeleton.json"} |->
     <<Punct("{"), JString("proxies"), Punct(":"), JString("B"), Punct("}")>>]

FileInputs == {"skeleton.json", "missing.json"}

\* Lists of up to n instances.
RECURSIVE IndexSeqs(_)
IndexSeqs(n) ==
  IF n = 0 THEN {<<>>}
  ELSE LET S == IndexSeqs(n - 1)
       IN  S \cup {Append(q, i) : q \in {p \in S : Len(p) = n - 1},
                                  i \in 1..Len(confs)}

Distinct(q) == \A i, j \in 1..Len(q) : i # j => q[i] # q[j]

Init ==
  /\ heap = InitHeap
  /\ confs = <<>>
  /\ env \in Environments
  /\ call = NoCall("start")
  /\ track = <<>>
  /\ modules = {}
  /\ fd = NoStream

Construct ==
  /\ Len(confs) < MaxInst
  /\ \E c \in SmallCalls : DoConstruct(c.args, c.kwargs)

FromDict ==
  /\ Len(confs) < MaxInst
  /\ \E value \in DictInputs :
       \E r \in {from_dict(heap, value)} :
         Returns("from_dict", r, <<>>, <<>>, 0, <<>>)

FromObject ==
  /\ Len(confs) < MaxInst
  /\ \E value \in ObjectInputs :
       \E r \in {from_object(heap, value)} :
         Returns("from_object", r, <<>>, <<>>, 0, <<>>)

FromFile ==
  /\ Len(confs) < MaxInst
  /\ \E value \in FileInputs :
       \E r \in {from_file(heap, Files, value)} :
         Returns("from_file", r, <<>>, <<>>, 0, <<>>)

FromEnv ==
  /\ Len(confs) < MaxInst
  /\ \E r \in {from_env(heap, env, PyNone, TRUE)} :
       Returns("from_env", r, <<>>, <<>>, 0, <<>>)

Set ==
  \E i \in 1..Len(confs), key \in SetKeys, value \in SetValues :
    \E r \in {set(heap, confs[i], key, value)} :
      /\ Finish(r.h, confs[i], FALSE)
      /\ track' = IF r.exc = NoExc
                  THEN [track EXCEPT ![i].explicit = @ \cup {key}, ![i].ever = @ \cup {key}]
                  ELSE track
      /\ call' = Call("set", <<>>, <<>>, i, <<>>, key, value, r.exc, 0)
      /\ UNCHANGED env

UpdateFromEnv ==
  \E i \in 1..Len(confs) :
    \E r \in {_update_from_env(heap, env, confs[i], PyNone, TRUE)} :
      /\ Finish(r.h, confs[i], FALSE)
      /\ track' = [track EXCEPT ![i].explicit =
                     @ \ DOMAIN getenv(env, keylist(heap), PyNone, TRUE).vals]
      /\ call' = Call("_update_from_env", <<>>, <<>>, i, <<>>, "", PyNone, r.exc, 0)
      /\ UNCHANGED env

Merge ==
  /\ Len(confs) < MaxInst
  /\ \E i, j \in 1..Len(confs) :
       \E r \in {merge(heap, confs[i], confs[j])} :
         Returns("merge", r, <<>>, <<>>, i, <<j>>)

\* merge_all called on the instance made last, with up to MaxOthers of the
\* instances there are, itself among them, in any order.
MergeAll ==
  /\ Len(confs) < MaxInst
  /\ \E i \in {Len(confs)} \ {0} :
     \E js \in {q \in IndexSeqs(MaxOthers) : Distinct(q)} :
       \E r \in {merge_all(heap, confs[i], [n \in 1..Len(js) |-> confs[js[n]]])} :
         Returns("merge_all", r, <<>>, <<>>, i, js)

Next ==
  /\ call.seq < MaxCalls
  /\ \/ Construct
     \/ FromDict
     \/ FromObject
     \/ FromFile
     \/ FromEnv
     \/ Set
     \/ UpdateFromEnv
     \/ Merge
     \/ MergeAll
  /\ UNCHANGED <<modules, fd>>

Spec == Init /\ [][Next]_vars

\* ------------------------------------------------------------------ views

\* The effective values and the override set (_user_options) of instance i.
Vals(i) == heap[confs[i].self].vals
User(i) == heap[confs[i].user].vals

\* The same of an instance c in a heap h.
View(h, c) == [vals |-> h[c.self].vals, user |-> h[c.user].vals]

\* The addresses of instance r are its own: not OPTIONS, not another
\* instance's, and two of them.
OwnStorage(cs, r) ==
  /\ cs[r].self # cs[r].user
  /\ {cs[r].self, cs[r].user} \cap {OPTIONS} = {}
  /\ \A i \in 1..Len(cs) :
       i # r => {cs[r].self, cs[r].user} \cap {cs[i].self, cs[i].user} = {}

\* -------------------------------------------------------------- C1: merge

\* C1: a.merge(b) returns a new Configuration whose override set is the union
\* of a's and b's override sets with b's value on every key both override;
\* its effective value is the override where there is one and the schema
\* default on every key overridden in neither.
C1_MergeIsUnionOtherWins ==
  call.op = "merge" =>
    LET a == call.self
        b == call.others[1]
        r == call.res
    IN  /\ call.exc = NoExc
        /\ r = Len(confs) /\ r \notin {a, b}
        /\ DOMAIN User(r) = DOMAIN User(a) \cup DOMAIN User(b)
        /\ \A k \in DOMAIN User(r) :
             /\ User(r)[k] = IF k \in DOMAIN User(b) THEN User(b)[k] ELSE User(a)[k]
             /\ Vals(r)[k] = User(r)[k]
        /\ \A k \in SchemaKeys \ DOMAIN User(r) : Vals(r)[k] = SchemaDefaults[k]
        /\ DOMAIN Vals(r) = SchemaKeys

\* A merge of two instances that override one key differently, where a
\* overrides a key b leaves alone.
C1_Witness ==
  /\ call.op = "merge"
  /\ call.exc = NoExc
  /\ \E k \in DOMAIN User(call.self) \cap DOMAIN User(call.others[1]) :
       User(call.self)[k] # User(call.others[1])[k]
  /\ DOMAIN User(call.self) \ DOMAIN User(call.others[1]) # {}

\* ---------------------------------------------------------- C2: merge_all

\* base.merge(o1).merge(o2)...merge(on): the pairwise merges from others[i] on.
RECURSIVE PairwiseMerge(_, _, _, _)
PairwiseMerge(h, c, others, i) ==
  IF i > Len(others) THEN [h |-> h, c |-> c]
  ELSE LET r == merge(h, c, others[i])
       IN  PairwiseMerge(r.h, r.ret, others, i + 1)

\* C2: base.merge_all(o1, ..., on) equals base.merge(o1)...merge(on) in
\* effective values and in override set (stated here for n >= 1): on a key
\* collision the later argument wins.
C2_MergeAllIsPairwise ==
  (call.op = "merge_all" /\ Len(call.others) >= 1) =>
    LET p == PairwiseMerge(heap, confs[call.self],
                           [n \in 1..Len(call.others) |-> confs[call.others[n]]], 1)
    IN  /\ call.exc = NoExc
        /\ View(heap, confs[call.res]) = View(p.h, p.c)

\* ------------------------------------------- C3: merge and explicit choices

\* C3: for a key k whose current value in a was supplied by the caller (to the
\* constructor or to set) and that b's caller never supplied, a.merge(b) has
\* a's current value for k.
C3_MergeKeepsExplicitChoice ==
  call.op = "merge" =>
    \A k \in track[call.self].explicit \ track[call.others[1]].ever :
      Vals(call.res)[k] = Vals(call.self)[k]

\* ----------------------------------------------- C4: merge and its inputs

\* A step that is a merge or merge_all leaves every instance there was as it
\* was and returns an instance with storage of its own; a step that is a set
\* on one instance leaves every other instance as it was.
C4_Step ==
  /\ call'.op \in {"merge", "merge_all"} =>
       /\ \A i \in 1..Len(confs) :
            i <= Len(confs') /\ View(heap', confs'[i]) = View(heap, confs[i])
       /\ call'.res # 0 => OwnStorage(confs', call'.res)
  /\ call'.op = "set" =>
       /\ Len(confs') = Len(confs)
       /\ \A i \in 1..Len(confs) :
            i # call'.self => View(heap', confs'[i]) = View(heap, confs[i])

\* C4: merge and merge_all never modify their inputs, and the result owns
\* separate storage: a later set on the result, on a or on an argument changes
\* that instance alone.
C4_MergeLeavesInputsAlone == [][C4_Step]_vars

\* A set that succeeded on an instance a merge returned.
C4_Witness ==
  /\ call.op = "set"
  /\ call.exc = NoExc
  /\ track[call.self].merged
  /\ Vals(call.self) # Vals(1)

\* -------------------------------------------------------- C5: the key set

\* C5: the key set of every Configuration instance is exactly the key set of
\* the Option Schema, whatever constructors, set, _update_from_env, merge and
\* merge_all calls led here.
C5_KeySetIsSchema ==
  \A i \in 1..Len(confs) : DOMAIN Vals(i) = SchemaKeys

\* An instance a merge returned, since changed by set and then by
\* _update_from_env with client_cert in the environment.
C5_Witness ==
  /\ call.op = "_update_from_env"
  /\ track[call.self].merged
  /\ Vals(call.self)["client_cert"] = PyStr("E")
  /\ Vals(call.self)["proxies"] = PyInt(7)

\* ------------------------------------------------- C6: construction values

\* The value the call gave for key k: positionally, else by keyword, else none.
Positional(k) == IndexOf(k) <= Len(call.args)
Keyword(k) == \E j \in 1..Len(call.kwargs) : call.kwargs[j].k = k
KeywordValue(k) == call.kwargs[CHOOSE j \in 1..Len(call.kwargs) : call.kwargs[j].k = k].v

\* C6: after Configuration(*args, **kwargs) succeeds, every schema key has
\* the value supplied for it, positionally or by keyword, and its schema
\* default when none was; Configuration().as_dict() is the mapping of the
\* schema defaults on every call.
C6_ConstructedValues ==
  (call.op = "Configuration" /\ call.exc = NoExc) =>
    /\ call.res = Len(confs)
    /\ DOMAIN Vals(call.res) = SchemaKeys
    /\ \A k \in SchemaKeys :
         Vals(call.res)[k] = IF Positional(k) THEN call.args[IndexOf(k)]
                             ELSE IF Keyword(k) THEN KeywordValue(k)
                             ELSE SchemaDefaults[k]
    /\ (call.args = <<>> /\ call.kwargs = <<>>) =>
         as_dict(heap, confs[call.res]).vals = SchemaDefaults

\* Configuration() called after a construction with positional and keyword
\* values.
C6_Witness ==
  /\ call.op = "Configuration"
  /\ call.exc = NoExc
  /\ call.seq = 2
  /\ call.args = <<>> /\ call.kwargs = <<>>
  /\ call.res >= 2
  /\ Cardinality(DOMAIN User(call.res - 1)) >= 3
  /\ Vals(call.res - 1)["verify"] = VC

\* ------------------------------------------------- C7: unknown keywords

Unknown(kwargs) == {j \in 1..Len(kwargs) : kwargs[j].k \notin SchemaKeys}

\* What a step that is a constructor call with an unknown keyword does.
C7_Step ==
  (call'.op = "Configuration" /\ Unknown(call'.kwargs) # {}) =>
    /\ call'.exc.type = "ValueError"
    /\ call'.exc.msg = "invalid key"
    /\ \E j \in Unknown(call'.kwargs) :
         /\ call'.exc.key = call'.kwargs[j].k
         /\ \A n \in Unknown(call'.kwargs) : j <= n
    /\ call'.res = 0
    /\ heap' = heap
    /\ confs' = confs

\* C7: a constructor call with a keyword that is no schema key raises the
\* validation error naming that key (the first such keyword), whatever the
\* other arguments; no instance is made and neither the schema nor any
\* instance changes.
C7_UnknownKeywordRaises == [][C7_Step]_vars

\* The validation error of a call that also has too many positional
\* arguments and a keyword naming the first schema key, with an instance about.
C7_Witness ==
  /\ call.op = "Configuration"
  /\ call.exc = Exc("ValueError", "invalid key", "bogus")
  /\ Len(call.args) > Len(OptionsOrder)
  /\ \E j \in 1..Len(call.kwargs) : call.kwargs[j].k = "client_cert"
  /\ Len(confs) = 1

\* ----------------------------------------------- C8: positional arguments

\* What a step that is a constructor call with positional arguments alone does.
C8_Step ==
  (call'.op = "Configuration" /\ call'.kwargs = <<>>) =>
    IF Len(call'.args) <= Len(OptionsOrder)
    THEN /\ call'.exc = NoExc
         /\ confs' = Append(confs, confs'[call'.res])
         /\ heap'[confs'[call'.res].user].vals =
              [k \in {OptionsOrder[i] : i \in 1..Len(call'.args)} |->
                 call'.args[IndexOf(k)]]
    ELSE /\ call'.exc = Exc("TypeError", "takes at most", "")
         /\ call'.res = 0
         /\ confs' = confs
         /\ heap' = heap

\* C8: in Configuration(*args), args[i] becomes the override of the i-th
\* schema key, for every number of arguments up to the number of schema keys;
\* with more, the call raises the arity error and makes no instance.
C8_PositionalByOrder == [][C8_Step]_vars

\* As many positional arguments as there are schema keys: the last one is the
\* override of the last key.
C8_Witness ==
  /\ call.op = "Configuration"
  /\ call.exc = NoExc
  /\ call.kwargs = <<>>
  /\ Len(call.args) = Len(OptionsOrder)
  /\ User(call.res)["verify"] = PyInt(Len(OptionsOrder))
  /\ User(call.res)["client_cert"] = PyInt(1)

\* ------------------------------------ C9: positional and keyword for a key

\* Some schema key gets a value positionally and by keyword.
Collides(args, kwargs) ==
  \E i \in 1..Len(args), j \in 1..Len(kwargs) :
    i <= Len(OptionsOrder) /\ kwargs[j].k = OptionsOrder[i]

\* C9 as claimed: whenever some schema key receives a value both positionally
\* and by keyword, construction fails with an arity error.
C9_CollisionIsArityError ==
  (call.op = "Configuration" /\ Collides(call.args, call.kwargs)) =>
    call.exc.type = "TypeError"

\* What a step that is a constructor call with a key given twice does.
C9_Step ==
  (call'.op = "Configuration" /\ Collides(call'.args, call'.kwargs)) =>
    /\ call'.exc.type = IF Unknown(call'.kwargs) = {} THEN "TypeError" ELSE "ValueError"
    /\ call'.res = 0
    /\ confs' = confs
    /\ heap' = heap

\* C9, amended: whenever some schema key receives a value both positionally
\* and by keyword, construction fails and makes no instance: with the arity
\* error when every keyword is a schema key, with the invalid-key validation
\* error when some keyword is not.
C9_CollisionFails == [][C9_Step]_vars

\* The arity error for the last schema key, given as the last of as many
\* positional arguments as there are keys and by keyword.
C9_Witness ==
  /\ call.op = "Configuration"
  /\ call.exc = Exc("TypeError", "multiple values for keyword argument", "verify")
  /\ Len(call.args) = Len(OptionsOrder)

\* ----------------------------------------------------------------- C10: set

\* What a step that is a set does.
C10_Step ==
  call'.op = "set" =>
    IF call'.key \notin SchemaKeys
    THEN /\ call'.exc = Exc("ValueError", "non-existent option", call'.key)
         /\ heap' = heap
         /\ confs' = confs
    ELSE /\ call'.exc = NoExc
         /\ confs' = confs
         /\ heap'[confs[call'.self].self].vals =
              [k \in SchemaKeys |-> IF k = call'.key THEN call'.value
                                    ELSE heap[confs[call'.self].self].vals[k]]

\* C10: set(key, value) with a key outside the schema raises the invalid-key
\* error and changes nothing; with a schema key it stores the very value
\* under that key and leaves the values of the other keys as they were.
C10_SetValidatesAndStores == [][C10_Step]_vars

\* An int stored by set over the str the constructor was given for the key.
C10_Witness ==
  /\ call.op = "set"
  /\ call.exc = NoExc
  /\ call.key = "proxies"
  /\ "proxies" \in DOMAIN User(call.self)
  /\ User(call.self)["proxies"] = VB
  /\ Vals(call.self)["proxies"] = PyInt(7)

\* ------------------------------------------------------------- C11: get

\* The calls a reading specification makes.
MaxSteps == 3

\* What the program asks get for.
GetKeys == {"proxies", "bogus"}
GetDefaults == {PyStr("D")}

\* A call that changes no object: how it is recorded.
Reads(c) ==
  /\ call' = c
  /\ UNCHANGED <<heap, confs, env, track>>

Get ==
  \E i \in 1..Len(confs), key \in GetKeys, default \in GetDefaults, strict \in BOOLEAN :
    \E r \in {get(heap, confs[i], key, default, strict)} :
      Reads([Call("get", <<>>,
                  <<Item("default", default), Item("strict", PyBool(strict))>>,
                  i, <<>>, key, PyNone, r.exc, 0) EXCEPT !.ret = r.ret])

NextGet ==
  /\ call.seq < MaxSteps
  /\ \/ Construct
     \/ Set
     \/ Get
  /\ UNCHANGED <<modules, fd>>

SpecGet == Init /\ [][NextGet]_vars

\* What a step that is a get does.
C11_Step ==
  call'.op = "get" =>
    /\ heap' = heap
    /\ confs' = confs
    /\ IF call'.key \in SchemaKeys
       THEN /\ call'.exc = NoExc
            /\ call'.ret = heap[confs[call'.self].self].vals[call'.key]
       ELSE IF call'.kwargs[2].v = PyBool(TRUE)
            THEN call'.exc = Exc("ValueError", "non-existent option", call'.key)
            ELSE call'.exc = NoExc /\ call'.ret = call'.kwargs[1].v

\* C11: get(key, default, strict) returns the stored value of a schema key,
\* whatever default is and also when the stored value is None; for a key
\* outside the schema it returns default when strict is false and raises the
\* invalid-key error when strict is true; it never changes the configuration.
C11_GetReturnsStored == [][C11_Step]_vars

\* A get of a key whose stored value is None, with a default that is not.
C11_Witness ==
  /\ call.op = "get"
  /\ call.exc = NoExc
  /\ call.key = "proxies"
  /\ call.kwargs[1].v = PyStr("D")
  /\ Vals(call.self)["proxies"] = PyNone
  /\ call.ret = PyNone

\* ---------------------------------------------------- C12: round trips

\* The values JSON has: scalars, an object, arrays, one nested in the other.
JsonValues ==
  {PyNone, PyBool(TRUE), PyInt(7), VB,
   PyDict(DictSetItem(EmptyDict, "http", VB)),
   PyList(<<VB>>),
   PyList(<<PyInt(7), PyDict(DictSetItem(EmptyDict, "no", PyList(<<>>)))>>)}

\* The override mappings the program constructs from: schema keys with
\* values JSON has, and one with a class for a value, which JSON has not.
OverrideMaps ==
  {<<>>} \cup
  {<<Item("client_cert", v)>> : v \in JsonValues} \cup
  {<<Item("client_cert", PyNone), Item("retries", PyInt(7))>>,
   <<Item("verify", PyBool(TRUE)), Item("retries", VB)>>,
   <<Item("proxies", PyObj("settings.Config"))>>}

ConstructFrom ==
  /\ Len(confs) < MaxInst
  /\ \E m \in OverrideMaps : DoConstruct(<<>>, m)

AsString ==
  \E i \in 1..Len(confs) :
    \E r \in {as_string(heap, confs[i])} :
      Reads([Call("as_string", <<>>, <<>>, i, <<>>, "", PyNone, r.exc, 0)
               EXCEPT !.out = r.out])

\* The values of end the program dumps with.
DumpEnds == {PyNone, PyStr("\n"), PyStr(" "), PyStr("\r\n")}

\* The call dump(fd, end=end) on instance i as it is recorded when it has
\* returned or raised: out are the pieces given to fd.write, fd being empty
\* before.
Dumped(i, r) ==
  [Call("dump", <<>>, <<Item("end", r.st.end)>>, i, <<>>, "", PyNone, r.exc, 0)
     EXCEPT !.out = r.st.out]

\* dump(fd, end=end) is called and goes as far as its first fd.write.
DumpStart ==
  /\ fd.self = 0
  /\ \E i \in 1..Len(confs), end \in DumpEnds :
       fd' = [self |-> i, st |-> dump_start(heap, confs[i], end)]
  /\ UNCHANGED <<heap, confs, env, call, track, modules>>

\* The dump under way goes on to its next fd.write, or returns, or raises.
DumpWrite ==
  /\ fd.self # 0
  /\ \E pos \in dump_positions(heap, confs[fd.self], fd.st) :
       \E r \in {dump_next(heap, confs[fd.self], fd.st, pos)} :
         /\ fd' = IF r.done THEN NoStream ELSE [fd EXCEPT !.st = r.st]
         /\ call' = IF r.done THEN Dumped(fd.self, r) ELSE call
  /\ UNCHANGED <<heap, confs, env, track, modules>>

\* The calls made so far, the dump under way among them.
Calls == call.seq + IF fd.self = 0 THEN 0 ELSE 1

\* from_dict of the text the last call that ended returned or wrote.
ParseBack ==
  /\ Len(confs) < MaxInst
  /\ call.op \in {"as_string", "dump"}
  /\ call.exc = NoExc
  /\ \E r \in {from_dict(heap, [kind |-> "str", items |-> <<>>,
                                text |-> IF call.op = "dump" THEN Joined(call.out)
                                         ELSE call.out])} :
       /\ Finish(r.h, r.ret, r.exc = NoExc)
       /\ track' = IF r.exc = NoExc
                   THEN Append(track, Made("from_dict", r.h, r.ret.user)) ELSE track
       /\ call' = [Call("from_dict", <<>>, <<>>, call.self, <<>>, call.op, PyNone, r.exc,
                        IF r.exc = NoExc THEN Len(confs) + 1 ELSE 0)
                     EXCEPT !.out = call.out]
       /\ UNCHANGED env

\* The round trip.  fd.write is the caller's: the other calls are made
\* before a dump, after it, and inside any fd.write of it.
NextRoundTrip ==
  \/ /\ Calls < MaxSteps
     /\ \/ ConstructFrom
        \/ AsString
        \/ ParseBack
     /\ fd' = Watched(fd, heap', confs')
     /\ UNCHANGED modules
  \/ /\ Calls < MaxSteps
     /\ DumpStart
  \/ DumpWrite

SpecRoundTrip == Init /\ [][NextRoundTrip]_vars

\* C12: from_dict of the text Configuration(**m).as_string() returns, and of
\* the text dump(stream) writes, succeeds and gives a configuration whose
\* as_dict() equals that of the configuration serialized, for every m of
\* schema keys and JSON values.
C12_RoundTrip ==
  (call.op = "from_dict" /\ call.key \in {"as_string", "dump"}) =>
    /\ call.exc = NoExc
    /\ call.res = Len(confs)
    /\ as_dict(heap, confs[call.res]).vals = as_dict(heap, confs[call.self]).vals

\* The round trip through dump(fd, end="\r\n") of a configuration made with
\* None and an int among its overrides, next to a bool and strs among the
\* defaults: one fd.write for each piece and one for end, and before end the
\* text that as_string returns.
C12_Witness ==
  /\ call.op = "from_dict"
  /\ call.key = "dump"
  /\ call.exc = NoExc
  /\ User(call.self) = [k \in {"client_cert", "retries"} |->
                          IF k = "retries" THEN PyInt(7) ELSE PyNone]
  /\ Vals(call.res)["retries"] = PyInt(7)
  /\ Vals(call.res)["verify"] = PyBool(FALSE)
  /\ Len(call.out) = 4 * Len(OptionsOrder) + 2
  /\ call.out[Len(call.out)] = <<JWhite("\r\n")>>
  /\ Joined(SubSeq(call.out, 1, Len(call.out) - 1)) = as_string(heap, confs[call.self]).out

\* ------------------------------------------- C13, C14: the environment

\* The environments of the program: some of three names, each empty or "7".
EnvNames == {"client_cert", "retries", "CLIENT_CERT"}
EnvInputs ==
  UNION {[S -> {"", "7"}] : S \in SUBSET EnvNames}

\* The names getenv is asked for, as a list or as one str.
NameLists == {<<>>, <<"client_cert", "retries", "missing">>}
NameStrs == {"retries"}
EnvDefaults == {PyStr("D")}

InitEnv ==
  /\ heap = InitHeap
  /\ confs = <<>>
  /\ env \in EnvInputs
  /\ call = NoCall("start")
  /\ track = <<>>
  /\ modules = {}
  /\ fd = NoStream

\* getenv(keys, default, drop_null) called by the program.
Getenv ==
  \E default \in EnvDefaults, drop_null \in BOOLEAN :
    \/ \E keys \in NameLists :
         Reads([Call("getenv", [n \in 1..Len(keys) |-> PyStr(keys[n])],
                     <<Item("default", default), Item("drop_null", PyBool(drop_null))>>,
                     0, <<>>, "list", PyNone, NoExc, 0)
                  EXCEPT !.map = getenv(env, keys, default, drop_null)])
    \/ \E keys \in NameStrs :
         Reads([Call("getenv", <<PyStr(keys)>>,
                     <<Item("default", default), Item("drop_null", PyBool(drop_null))>>,
                     0, <<>>, "str", PyNone, NoExc, 0)
                  EXCEPT !.map = getenv_str(env, keys, default, drop_null)])

NextEnv ==
  /\ call.seq < MaxSteps
  /\ \/ FromEnv
     \/ Getenv
  /\ UNCHANGED <<modules, fd>>

SpecEnv == InitEnv /\ [][NextEnv]_vars

\* The environment variable name is set to a string that is not empty.
EnvSet(name) == name \in DOMAIN env /\ env[name] # ""

\* C13: Configuration.from_env() gives every schema key whose environment
\* variable of the same name is set to a string that is not empty that very
\* string, uncoerced, and every other schema key its schema default.
C13_FromEnvValues ==
  call.op = "from_env" =>
    /\ call.exc = NoExc
    /\ call.res = Len(confs)
    /\ DOMAIN Vals(call.res) = SchemaKeys
    /\ \A k \in SchemaKeys :
         Vals(call.res)[k] = IF EnvSet(k) THEN PyStr(env[k]) ELSE SchemaDefaults[k]

\* from_env with retries set to "7", client_cert set to the empty string and
\* CLIENT_CERT set.
C13_Witness ==
  /\ call.op = "from_env"
  /\ call.exc = NoExc
  /\ DOMAIN env = EnvNames
  /\ env["client_cert"] = "" /\ env["CLIENT_CERT"] = "7"
  /\ Vals(call.res)["retries"] = PyStr("7")
  /\ Vals(call.res)["client_cert"] = PyNone

\* What a step that is a getenv does.
C14_Step ==
  call'.op = "getenv" =>
    LET names == {call'.args[n].s : n \in 1..Len(call'.args)}
        default == call'.kwargs[1].v
        drop_null == call'.kwargs[2].v = PyBool(TRUE)
        got == call'.map.vals
    IN  /\ env' = env
        /\ heap' = heap /\ confs' = confs
        /\ call'.exc = NoExc
        /\ IF drop_null
           THEN /\ DOMAIN got = {k \in names : k \in DOMAIN env /\ env[k] # ""}
                /\ \A k \in DOMAIN got : got[k] = PyStr(env[k])
           ELSE /\ DOMAIN got = names
                /\ \A k \in names :
                     got[k] = IF k \in DOMAIN env THEN PyStr(env[k]) ELSE default

\* C14: getenv(names, default, drop_null) returns, with drop_null true, the
\* names present in the environment with a value that is not empty, each with
\* its string; with drop_null false, all the names, with default for every
\* name missing from the environment; the environment is left as it was.
C14_GetenvMapping == [][C14_Step]_vars

\* getenv with drop_null false for three names: one set, one empty, one
\* missing.
C14_Witness ==
  /\ call.op = "getenv"
  /\ call.kwargs[2].v = PyBool(FALSE)
  /\ DOMAIN call.map.vals = {"client_cert", "retries", "missing"}
  /\ call.map.vals["client_cert"] = PyStr("7")
  /\ call.map.vals["retries"] = PyStr("")
  /\ call.map.vals["missing"] = PyStr("D")

\* --------------------------------------------------- C15, C16: from_object

\* The objects the program gives to from_object: their attributes in dir()
\* order.
Objects ==
  ObjectInputs \cup {Dir("settings"), Dir("settings.Config"), Dir("settings.Debug")}
    \cup { <<Item("LOG_FILE", VB), Item("RETRIES", PyInt(3)), Item("VERIFY", PyBool(TRUE)),
             Item("__doc__", PyNone), Item("name", VC)>>,
           <<Item("X1", PyInt(7)), Item("_PRIVATE", VB)>> }

\* The import names it gives.
ImportNames ==
  { import_name(text) :
      text \in {"settings", "settings:Config", "settings.Missing", "nowhere",
                "nowhere:Config", "", ".settings:Config"} }

\* from_object(obj): args records the attributes of obj, kwargs the keywords
\* given to the constructor.
FromObjectOf ==
  /\ Len(confs) < MaxInst
  /\ \E value \in Objects :
       \E r \in {from_object(heap, value)} :
         /\ Finish(r.h, r.ret, r.exc = NoExc)
         /\ track' = IF r.exc = NoExc
                     THEN Append(track, Made("from_object", r.h, r.ret.user)) ELSE track
         /\ call' = Call("from_object", value, from_object_loop(value, <<>>, 1),
                         0, <<>>, "object", PyNone, r.exc,
                         IF r.exc = NoExc THEN Len(confs) + 1 ELSE 0)
         /\ UNCHANGED env

\* from_object(path): value records the import name.
FromObjectPath ==
  /\ Len(confs) < MaxInst
  /\ \E name \in ImportNames :
       \E r \in {from_object_str(heap, modules, name)} :
         /\ modules' = r.modules
         /\ Finish(r.h, r.ret, r.exc = NoExc)
         /\ track' = IF r.exc = NoExc
                     THEN Append(track, Made("from_object", r.h, r.ret.user)) ELSE track
         /\ call' = Call("from_object", <<>>, <<>>, 0, <<>>, "str", PyStr(name.text), r.exc,
                         IF r.exc = NoExc THEN Len(confs) + 1 ELSE 0)
         /\ UNCHANGED env

NextObject ==
  /\ call.seq < MaxSteps
  /\ \/ FromObjectOf /\ UNCHANGED modules
     \/ FromObjectPath
  /\ UNCHANGED fd

SpecObject == Init /\ [][NextObject]_vars

\* The attributes of the object given whose names are all upper case.
UpperAttrs == {i \in 1..Len(call.args) : str_isupper(call.args[i].k)}

\* C15: from_object(obj) gives the constructor one keyword for each attribute
\* of obj whose name is all upper case, named by the lower-cased name and
\* holding the attribute's value, and no other keyword; the result has that
\* value for each such key; the call fails with the constructor's invalid-key
\* error when some such lower-cased name is no schema key.
C15_FromObjectKeywords ==
  (call.op = "from_object" /\ call.key = "object") =>
    /\ Len(call.kwargs) = Cardinality(UpperAttrs)
    /\ \A i \in UpperAttrs :
         \E j \in 1..Len(call.kwargs) :
           call.kwargs[j] = Item(str_lower(call.args[i].k), call.args[i].v)
    /\ IF \E i \in UpperAttrs : str_lower(call.args[i].k) \notin SchemaKeys
       THEN call.exc.type = "ValueError" /\ call.exc.msg = "invalid key" /\ call.res = 0
       ELSE /\ call.exc = NoExc
            /\ call.res = Len(confs)
            /\ \A i \in UpperAttrs :
                 Vals(call.res)[str_lower(call.args[i].k)] = call.args[i].v
            /\ DOMAIN User(call.res) = {str_lower(call.args[i].k) : i \in UpperAttrs}

\* from_object of an object with two upper-case attributes, one attribute in
\* mixed case and one dunder attribute.
C15_Witness ==
  /\ call.op = "from_object"
  /\ call.key = "object"
  /\ call.exc = NoExc
  /\ Cardinality(UpperAttrs) = 2
  /\ Len(call.args) = 4
  /\ Vals(call.res)["client_cert"] = VB
  /\ Vals(call.res)["proxies"] = VC
  /\ Vals(call.res)["verify"] = PyBool(FALSE)

\* The import name resolves: to a module, or to an attribute of a module.
Resolves(name) ==
  \/ name.dotted \in Importable
  \/ /\ name.head \in Importable
     /\ \E i \in 1..Len(Dir(name.head)) : Dir(name.head)[i].k = name.tail

\* C16: from_object(path) with a str that resolves to no module and to no
\* attribute raises ImportStringError carrying the exception of the import
\* and the import path, and returns nothing.
C16_UnresolvedIsImportStringError ==
  (call.op = "from_object" /\ call.key = "str") =>
    \A name \in ImportNames :
      (name.text = call.value.s /\ ~Resolves(name)) =>
        /\ call.exc.type = "ImportStringError"
        /\ call.exc.key = name.dotted
        /\ call.exc.msg \in {"ImportError", "ModuleNotFoundError", "AttributeError"}
        /\ call.res = 0

\* ------------------------------------------------------ C17, C18: from_file

\* The files of the program: JSON objects, one with a key outside the schema,
\* one with a key twice, one with an object and an array for values, one with
\* a blank and a tab after it, an empty array, and a text that is no JSON.
FileSystem ==
  [path \in {"skeleton.json", "two.json", "bogus.json", "twice.json", "nested.json",
             "blank.json", "list.json", "broken.json"} |->
     CASE path = "skeleton.json" -> Files["skeleton.json"]
       [] path = "nested.json" ->
            <<Punct("{"), JString("proxies"), Punct(":"),
              Punct("{"), JString("http"), Punct(":"), JString("B"), Punct("}"),
              Punct(","), JString("retries"), Punct(":"),
              Punct("["), JString("B"), Punct(","), JNumber(7), Punct("]"), Punct("}")>>
       [] path = "blank.json" ->
            <<Punct("{"), JString("proxies"), Punct(":"), JString("B"), Punct("}"),
              JWhite(" "), JWhite("\t")>>
       [] path = "list.json" -> <<Punct("["), Punct("]")>>
       [] path = "two.json" ->
            <<Punct("{"), JString("client_cert"), Punct(":"), JNull, Punct(","), JSpace,
              JString("retries"), Punct(":"), JNumber(7), Punct("}"), JSpace>>
       [] path = "bogus.json" ->
            <<Punct("{"), JString("proxies"), Punct(":"), JString("C"), Punct(","),
              JString("bogus"), Punct(":"), JTrue, Punct("}")>>
       [] path = "twice.json" ->
            <<Punct("{"), JString("proxies"), Punct(":"), JString("C"), Punct(","),
              JString("proxies"), Punct(":"), JFalse, Punct("}")>>
       [] OTHER -> <<Punct("{"), JString("proxies"), Punct(":"), Punct("}")>>]

Paths == DOMAIN FileSystem \cup {"missing.json"}

\* from_file(path): value records the path.
FromFileAt ==
  /\ Len(confs) < MaxInst
  /\ \E path \in Paths :
       \E r \in {from_file(heap, FileSystem, path)} :
         /\ Finish(r.h, r.ret, r.exc = NoExc)
         /\ track' = IF r.exc = NoExc
                     THEN Append(track, Made("from_file", r.h, r.ret.user)) ELSE track
         /\ call' = Call("from_file", <<>>, <<>>, 0, <<>>, "", PyStr(path), r.exc,
                         IF r.exc = NoExc THEN Len(confs) + 1 ELSE 0)
         /\ UNCHANGED env

NextFile ==
  /\ call.seq < MaxSteps
  /\ \/ FromFileAt
     \/ Construct
  /\ UNCHANGED <<modules, fd>>

SpecFile == Init /\ [][NextFile]_vars

\* The file at path holds a JSON object.
HoldsObject(path) ==
  /\ path \in DOMAIN FileSystem
  /\ json_loads(FileSystem[path]).exc = NoExc
  /\ json_loads(FileSystem[path]).ret.kind = "dict"

\* What a step that is a from_file does: the same as from_dict of the JSON
\* object j in the file, given as text or as the dict parsed from it.
C17_Step ==
  call'.op = "from_file" =>
    LET path == call'.value.s
    IN  IF HoldsObject(path)
        THEN \A j \in {[kind |-> "str", items |-> <<>>, text |-> FileSystem[path]],
                       [kind |-> "dict", items |-> Items(json_loads(FileSystem[path]).ret.d),
                        text |-> <<>>]} :
               LET d == from_dict(heap, j)
               IN  /\ call'.exc = d.exc
                   /\ d.exc = NoExc =>
                        /\ call'.res = Len(confs) + 1
                        /\ View(heap', confs'[call'.res]) = View(d.h, d.ret)
                   /\ d.exc # NoExc => call'.res = 0 /\ confs' = confs /\ heap' = heap
        ELSE /\ call'.exc # NoExc
             /\ call'.res = 0
             /\ confs' = confs
             /\ heap' = heap

\* C17: from_file(path) on a file holding a JSON object j gives a
\* configuration equal in effective values and override set to from_dict(j),
\* and the same invalid-key failure for a key of j outside the schema; it
\* fails and makes no configuration when the file is missing or holds no
\* valid JSON.
C17_FromFileIsFromDict == [][C17_Step]_vars

\* from_file of the file with two keys and white space, as the second call.
C17_Witness ==
  /\ call.op = "from_file"
  /\ call.value = PyStr("two.json")
  /\ call.exc = NoExc
  /\ call.seq = 2
  /\ User(call.res) = [k \in {"client_cert", "retries"} |->
                         IF k = "retries" THEN PyInt(7) ELSE PyNone]
  /\ Vals(call.res)["retries"] = PyInt(7)

\* C18: when from_file(path) fails because the file holds no valid JSON, the
\* error the caller gets is the parse error with the file it came from: the
\* path can be had from the error.
C18_ParseErrorNamesFile ==
  (/\ call.op = "from_file"
   /\ call.value.s \in DOMAIN FileSystem
   /\ json_loads(FileSystem[call.value.s]).exc # NoExc) =>
    /\ call.exc # NoExc
    /\ call.exc.key = call.value.s

\* ------------------------------------------------------- C19: the schema

\* Every operation of Configuration, the reading ones too.  fd.write is the
\* caller's: the other calls are made before a dump, after it, and inside any
\* fd.write of it.
NextAll ==
  \/ /\ Calls < MaxSteps
     /\ \/ Construct
        \/ FromDict
        \/ FromObject
        \/ FromFile
        \/ FromEnv
        \/ Set
        \/ UpdateFromEnv
        \/ Merge
        \/ MergeAll
        \/ Get
        \/ AsString
     /\ fd' = Watched(fd, heap', confs')
     /\ UNCHANGED modules
  \/ /\ Calls < MaxSteps
     /\ DumpStart
  \/ DumpWrite

SpecAll == Init /\ [][NextAll]_vars

\* C19: no operation of Configuration changes Configuration.OPTIONS: after
\* any constructions, failed ones too, set, _update_from_env, merge,
\* merge_all and serialization calls, its keys, their order and their default
\* values are those of its definition.
C19_SchemaNeverChanges ==
  /\ heap[OPTIONS].vals = SchemaDefaults
  /\ keylist(heap) = OptionsOrder

\* The text has tok for the value of key.
Wrote(text, key, tok) ==
  \E n \in 1..(Len(text) - 2) :
    text[n] = JString(key) /\ text[n + 1] = Punct(":") /\ text[n + 2] = tok

\* A dump that has returned, with a set made inside one of its fd.write calls
\* after the key was written: the text has the override the instance was
\* made with, the instance has the value set, the schema has neither.
C19_Witness ==
  /\ call.op = "dump"
  /\ call.exc = NoExc
  /\ DOMAIN User(call.self) = {"client_cert", "proxies"}
  /\ Wrote(Joined(call.out), "client_cert", JString("B"))
  /\ Wrote(Joined(call.out), "proxies", JString("C"))
  /\ Vals(call.self)["proxies"] = PyInt(7)
  /\ heap[OPTIONS].vals["proxies"] = PyNone
  /\ heap[OPTIONS].vals["client_cert"] = PyNone

\* --------------------------------------------- C20: the mapping interface

\* The keys the program names to the mutators of the mapping interface.
MutatorKeys == {"proxies", "bogus"}

InitDict ==
  /\ heap = InitHeap
  /\ confs = <<>>
  /\ env = NoEnviron
  /\ call = NoCall("start")
  /\ track = <<>>
  /\ modules = {}
  /\ fd = NoStream

\* A call of a dict method on instance i that ended as r.
Mutates(op, i, key, value, r) ==
  /\ Finish(r.h, confs[i], FALSE)
  /\ call' = [Call(op, <<>>, <<>>, i, <<>>, key, value, r.exc, 0) EXCEPT !.ret = r.ret]
  /\ UNCHANGED <<env, track>>

Update ==
  \E i \in 1..Len(confs), key \in MutatorKeys :
    \E r \in {dict_update(heap, confs[i], <<Item(key, PyInt(7))>>, 1)} :
      Mutates("update", i, key, PyInt(7), r)

SetDefault ==
  \E i \in 1..Len(confs), key \in MutatorKeys :
    \E r \in {dict_setdefault(heap, confs[i], key, PyInt(7))} :
      Mutates("setdefault", i, key, PyInt(7), r)

Pop ==
  \E i \in 1..Len(confs), key \in MutatorKeys, has_default \in BOOLEAN :
    \E r \in {dict_pop(heap, confs[i], key, has_default, PyInt(7))} :
      Mutates("pop", i, key, IF has_default THEN PyInt(7) ELSE PyNone, r)

DelItem ==
  \E i \in 1..Len(confs), key \in MutatorKeys :
    \E r \in {dict_delitem(heap, confs[i], key)} :
      Mutates("__delitem__", i, key, PyNone, r)

Clear ==
  \E i \in 1..Len(confs) :
    \E r \in {dict_clear(heap, confs[i])} :
      Mutates("clear", i, "", PyNone, r)

PopItem ==
  \E i \in 1..Len(confs) :
    \E r \in {dict_popitem(heap, confs[i])} :
      Mutates("popitem", i, "", PyNone, r)

NextDict ==
  /\ call.seq < MaxSteps
  /\ \/ Construct
     \/ Set
     \/ Update
     \/ SetDefault
     \/ Pop
     \/ PopItem
     \/ DelItem
     \/ Clear
  /\ UNCHANGED <<modules, fd>>

SpecDict == InitDict /\ [][NextDict]_vars

\* C20: no mutation through the mapping interface of an instance, the
\* mutators inherited from dict among them, adds a key outside the schema or
\* removes a schema key: each attempt raises or leaves the key set of the
\* instance equal to the schema key set.
C20_MutatorsKeepKeySet ==
  call.op \in {"set", "update", "setdefault", "pop", "popitem", "__delitem__", "clear"} =>
    \/ call.exc # NoExc
    \/ DOMAIN Vals(call.self) = SchemaKeys

\* ------------------------------------- a dump and the calls made during it

\* fd.write is the caller's: while it runs, other code of the program may
\* call the instance that is dumped.  The calls made between two writes of a
\* dump: set, _update_from_env, and update and pop of the mapping interface.
NextDump ==
  \/ /\ call.seq < MaxSteps
     /\ \/ Construct
        \/ Set
        \/ UpdateFromEnv
        \/ Update
        \/ Pop
     /\ fd' = Watched(fd, heap', confs')
     /\ UNCHANGED modules
  \/ /\ call.seq < MaxSteps
     /\ DumpStart
  \/ DumpWrite

SpecDump == Init /\ [][NextDump]_vars

\* ------------------------------------------- C21: the indexing operators

\* Item assignment that stores under any key, as dict.__setitem__ does.
setitem_dict(h, self, key, value) ==
  [h |-> HeapSetItem(h, self.self, key, value), exc |-> NoExc]

\* Configuration.__setitem__ = set: config[key] = value
__setitem__(h, self, key, value) ==
  set(h, self, key, value)

\* Configuration.__getitem__ = get: config[key], get with its defaults
\* default=None, strict=False.
__getitem__(h, self, key) ==
  get(h, self, key, PyNone, FALSE)

\* config[key] = value
SetItem ==
  \E i \in 1..Len(confs), key \in SetKeys, value \in SetValues :
    \E r \in {__setitem__(heap, confs[i], key, value)} :
      /\ Finish(r.h, confs[i], FALSE)
      /\ track' = IF r.exc = NoExc
                  THEN [track EXCEPT ![i].explicit = @ \cup {key}, ![i].ever = @ \cup {key}]
                  ELSE track
      /\ call' = Call("__setitem__", <<>>, <<>>, i, <<>>, key, value, r.exc, 0)
      /\ UNCHANGED env

\* config[key]
GetItem ==
  \E i \in 1..Len(confs), key \in GetKeys :
    \E r \in {__getitem__(heap, confs[i], key)} :
      Reads([Call("__getitem__", <<>>, <<>>, i, <<>>, key, PyNone, r.exc, 0)
               EXCEPT !.ret = r.ret])

NextItem ==
  /\ call.seq < MaxSteps
  /\ \/ Construct
     \/ Set
     \/ Get
     \/ SetItem
     \/ GetItem
  /\ UNCHANGED <<modules, fd>>

SpecItem == Init /\ [][NextItem]_vars

\* What a step that is an item assignment or an item read does.
C21_Step ==
  /\ call'.op = "__setitem__" =>
       LET s == set(heap, confs[call'.self], call'.key, call'.value)
       IN  /\ call'.exc = s.exc
           /\ confs' = confs
           /\ heap' = s.h
           /\ call'.key \notin SchemaKeys =>
                /\ call'.exc = Exc("ValueError", "non-existent option", call'.key)
                /\ heap' = heap
  /\ call'.op = "__getitem__" =>
       LET g == get(heap, confs[call'.self], call'.key, PyNone, FALSE)
       IN  /\ call'.exc = g.exc
           /\ call'.ret = g.ret
           /\ heap' = heap
           /\ confs' = confs
           /\ call'.exc = NoExc
           /\ call'.ret = IF call'.key \in SchemaKeys
                          THEN heap[confs[call'.self].self].vals[call'.key]
                          ELSE PyNone

\* C21: the indexing operators delegate to get and set: config[key] = v has
\* the effect of set(key, v), the invalid-key error and an unchanged state
\* for a key outside the schema included, and config[key] returns what
\* get(key) with its defaults returns: the stored value for a schema key and
\* None, without raising, for a key outside the schema.
C21_IndexingDelegates == [][C21_Step]_vars

\* A read by index of the value an item assignment stored over an override.
C21_Witness ==
  /\ call.op = "__getitem__"
  /\ call.key = "proxies"
  /\ call.ret = PyInt(7)
  /\ "proxies" \in DOMAIN User(call.self)
  /\ User(call.self)["proxies"] = VB

\* ------------------------------------------------- C22: _update_from_env

NextUpdate ==
  /\ call.seq < MaxSteps
  /\ \/ Construct
     \/ Set
     \/ UpdateFromEnv
  /\ UNCHANGED <<modules, fd>>

SpecUpdate == InitEnv /\ [][NextUpdate]_vars

\* What a step that is an _update_from_env does.
C22_Step ==
  call'.op = "_update_from_env" =>
    LET before == heap[confs[call'.self].self].vals
        after == heap'[confs'[call'.self].self].vals
    IN  /\ call'.exc = NoExc
        /\ env' = env
        /\ DOMAIN after = DOMAIN before
        /\ \A k \in DOMAIN before :
             after[k] = IF k \in SchemaKeys /\ EnvSet(k) THEN PyStr(env[k]) ELSE before[k]

\* C22: after config._update_from_env() with default arguments every schema
\* key whose environment variable of the same name is set to a string that is
\* not empty has that string as its value in config, every other key keeps
\* the value it had before the call, and the environment is unchanged.
C22_UpdateFromEnvFrame == [][C22_Step]_vars

\* An update that put retries from the environment and kept, under
\* client_cert set to the empty string, the value the constructor was given,
\* and the int that set stored.
C22_Witness ==
  /\ call.op = "_update_from_env"
  /\ call.seq = 3
  /\ "retries" \in DOMAIN env /\ env["retries"] = "7"
  /\ "client_cert" \in DOMAIN env /\ env["client_cert"] = ""
  /\ Vals(call.self)["retries"] = PyStr("7")
  /\ Vals(call.self)["client_cert"] = VB
  /\ Vals(call.self)["proxies"] = PyInt(7)

\* ------------------------------------------------ C23: the override set

\* The operations on instances there are: the constructor, set and item
\* assignment, _update_from_env, get and item read, merge, merge_all and the
\* serializations.  fd.write is the caller's: the other calls are made before
\* a dump, after it, and inside any fd.write of it.
NextOverride ==
  \/ /\ Calls < MaxSteps
     /\ \/ Construct
        \/ Set
        \/ SetItem
        \/ UpdateFromEnv
        \/ Get
        \/ GetItem
        \/ Merge
        \/ MergeAll
        \/ AsString
     /\ fd' = Watched(fd, heap', confs')
     /\ UNCHANGED modules
  \/ /\ Calls < MaxSteps
     /\ DumpStart
  \/ DumpWrite

SpecOverride == Init /\ [][NextOverride]_vars

\* What any step does to the override sets of the instances there are, and
\* what a merge makes of them.
C23_Step ==
  /\ Len(confs') >= Len(confs)
  /\ \A i \in 1..Len(confs) : heap'[confs'[i].user] = heap[confs[i].user]
  /\ (call'.op = "merge" /\ call'.seq # call.seq) =>
       LET ua == heap[confs[call'.self].user].vals
           ub == heap[confs[call'.others[1]].user].vals
       IN  /\ call'.exc = NoExc
           /\ heap'[confs'[call'.res].user].vals =
                [k \in DOMAIN ua \cup DOMAIN ub |-> IF k \in DOMAIN ub THEN ub[k] ELSE ua[k]]
           /\ heap'[confs'[call'.res].self].vals =
                [k \in SchemaKeys |-> IF k \in DOMAIN ub THEN ub[k]
                                      ELSE IF k \in DOMAIN ua THEN ua[k]
                                      ELSE SchemaDefaults[k]]

\* C23: the override set (_user_options) of an instance is fixed at
\* construction: no set, item assignment, _update_from_env, get, merge,
\* merge_all or serialization call, on that instance or on another, changes
\* it, so that what merge returns is decided by the arguments its two
\* operands were constructed with.
C23_OverrideSetIsFixed == [][C23_Step]_vars

\* An item assignment made inside an fd.write of a dump of the instance,
\* after the dump wrote the value of the key: the value assigned is the value
\* of the instance, the override the constructor was given is the override
\* still, and the dump goes on.
C23_Witness ==
  /\ call.op = "__setitem__"
  /\ call.exc = NoExc
  /\ call.self = 1 /\ fd.self = 1
  /\ fd.st.stage = "open"
  /\ \E n \in 1..(Len(fd.st.out) - 2) :
       /\ fd.st.out[n] = <<JString("proxies")>>
       /\ fd.st.out[n + 2] = <<JString("B")>>
  /\ User(1) = [k \in {"proxies"} |-> VB]
  /\ Vals(1)["proxies"] = PyInt(7)

\* ---------------------------------------------------------- C24: get_env

\* os.getenv(key, default)
os_getenv_default(e, key, default) ==
  IF key \in DOMAIN e THEN PyStr(e[key]) ELSE default

\* Configuration.validate_key(key, strict): what it returns or raises.
validate_key(h, key, strict) ==
  IF key \notin DOMAIN h[OPTIONS].vals
  THEN IF strict
       THEN [exc |-> Exc("ValueError", "non-existent option", key), ret |-> PyNone]
       ELSE [exc |-> NoExc, ret |-> PyBool(FALSE)]
  ELSE [exc |-> NoExc, ret |-> PyBool(TRUE)]

\* Configuration.get_env(key, default): cls.validate_key(key), then
\* cls(key=os.getenv(key, default)), a call with the keyword named "key".
get_env(h, e, key, default) ==
  LET v == validate_key(h, key, TRUE)
  IN  IF v.exc # NoExc
      THEN Raised(h, v.exc)
      ELSE Configuration(h, <<>>, <<Item("key", os_getenv_default(e, key, default))>>)

GetEnvKeys == {"client_cert", "retries", "bogus"}
GetEnvDefaults == {PyNone, PyStr("D")}

\* Configuration.get_env(key, default) called by the program.
GetEnv ==
  /\ Len(confs) < MaxInst
  /\ \E key \in GetEnvKeys, default \in GetEnvDefaults :
       \E r \in {get_env(heap, env, key, default)} :
         /\ Finish(r.h, r.ret, r.exc = NoExc)
         /\ track' = IF r.exc = NoExc
                     THEN Append(track, Made("get_env", r.h, r.ret.user)) ELSE track
         /\ call' = Call("get_env", <<>>, <<>>, 0, <<>>, key, default, r.exc,
                         IF r.exc = NoExc THEN Len(confs) + 1 ELSE 0)
         /\ UNCHANGED env

NextGetEnv ==
  /\ call.seq < MaxSteps
  /\ \/ GetEnv
     \/ Construct
  /\ UNCHANGED <<modules, fd>>

SpecGetEnv == InitEnv /\ [][NextGetEnv]_vars

\* C24: Configuration.get_env(key, default) for a schema key returns a
\* Configuration whose value for that key is the value of the environment
\* variable of the same name, or default when the variable is unset; for a
\* key outside the schema it raises the invalid-key error.
C24_GetEnvValue ==
  call.op = "get_env" =>
    IF call.key \in SchemaKeys
    THEN /\ call.exc = NoExc
         /\ call.res \in 1..Len(confs)
         /\ Vals(call.res)[call.key] =
              IF call.key \in DOMAIN env THEN PyStr(env[call.key]) ELSE call.value
    ELSE /\ call.exc = Exc("ValueError", "non-existent option", call.key)
         /\ call.res = 0

\* -------------------------------------------------------- C25: as_number

\* The longest str given to as_number.
MaxLen == 3

\* The values of this part: an int, a bool (an int too, n is 0 or 1), a
\* float n / 10^e with n not a multiple of 10 unless e = 0, a str as the
\* sequence s of its characters, and None.
NumInt(n) == [kind |-> "int", n |-> n, e |-> 0, s |-> <<>>]
NumBool(b) == [kind |-> "bool", n |-> IF b THEN 1 ELSE 0, e |-> 0, s |-> <<>>]
NumFloat(n, e) == [kind |-> "float", n |-> n, e |-> e, s |-> <<>>]
NumStr(s) == [kind |-> "str", n |-> 0, e |-> 0, s |-> s]
NumNone == [kind |-> "none", n |-> 0, e |-> 0, s |-> <<>>]

\* The characters of the model; "sup2" stands for SUPERSCRIPT TWO, "half"
\* for VULGAR FRACTION ONE HALF and "ar3" for ARABIC-INDIC DIGIT THREE.
Chars == {"0", "2", "4", ".", "-", "f", "sup2", "half", "ar3"}

\* The Unicode properties str.isdecimal, str.isdigit and str.isnumeric test
\* on each character: Numeric_Type Decimal, Digit or Decimal, and any.
IsDecimalChar(c) == c \in {"0", "2", "4", "ar3"}
IsDigitChar(c) == IsDecimalChar(c) \/ c = "sup2"
IsNumericChar(c) == IsDigitChar(c) \/ c = "half"

\* The value of a decimal character.
DigitValue(c) ==
  CASE c = "0" -> 0
    [] c = "2" -> 2
    [] c = "4" -> 4
    [] c = "ar3" -> 3
    [] OTHER -> 0

\* str.isnumeric(), str.isdecimal(), str.isdigit(): False on the empty str.
str_isnumeric(s) == Len(s) > 0 /\ \A i \in 1..Len(s) : IsNumericChar(s[i])
str_isdecimal(s) == Len(s) > 0 /\ \A i \in 1..Len(s) : IsDecimalChar(s[i])
str_isdigit(s) == Len(s) > 0 /\ \A i \in 1..Len(s) : IsDigitChar(s[i])

\* The number the first i decimal characters of s write in base 10.
RECURSIVE DecimalValue(_, _)
DecimalValue(s, i) ==
  IF i = 0 THEN 0 ELSE DecimalValue(s, i - 1) * 10 + DigitValue(s[i])

\* int(s) for a str without sign or white space: the int, or ValueError when
\* a character is no decimal digit or there is none.
int(s) ==
  IF str_isdecimal(s)
  THEN [exc |-> NoExc, ret |-> NumInt(DecimalValue(s, Len(s)))]
  ELSE [exc |-> Exc("ValueError", "invalid literal for int() with base 10", ""),
        ret |-> NumNone]

\* The float n / 10^e in lowest terms of e.
RECURSIVE Normal(_, _)
Normal(n, e) ==
  IF e > 0 /\ n % 10 = 0 THEN Normal(n \div 10, e - 1) ELSE NumFloat(n, e)

\* float(s) for a str of the model's characters: decimal digits around at
\* most one point, a digit at least, after "-" or not.
float(s) ==
  LET neg == Len(s) > 0 /\ s[1] = "-"
      body == IF neg THEN SubSeq(s, 2, Len(s)) ELSE s
      IsPoint(c) == c = "."
      NotPoint(c) == c # "."
      digits == SelectSeq(body, NotPoint)
      points == Len(SelectSeq(body, IsPoint))
      at == IF points = 0 THEN Len(body) + 1
            ELSE CHOOSE i \in 1..Len(body) : body[i] = "."
  IN  IF points <= 1 /\ str_isdecimal(digits)
      THEN [exc |-> NoExc,
            ret |-> Normal((IF neg THEN -1 ELSE 1) * DecimalValue(digits, Len(digits)),
                           IF points = 0 THEN 0 ELSE Len(body) - at)]
      ELSE [exc |-> Exc("ValueError", "could not convert string to float", ""),
            ret |-> NumNone]

\* as_number(value): what it returns or raises.
as_number(value) ==
  IF value.kind \in {"int", "bool"} THEN [exc |-> NoExc, ret |-> value]
  ELSE IF value.kind = "str"
       THEN IF str_isnumeric(value.s) THEN int(value.s)
            ELSE IF str_isdecimal(value.s) THEN float(value.s)
            ELSE IF str_isdigit(value.s) THEN int(value.s)
            ELSE [exc |-> NoExc, ret |-> value]
       ELSE [exc |-> NoExc, ret |-> value]

\* The strs of at most n characters.
RECURSIVE Strs(_)
Strs(n) ==
  IF n = 0 THEN {<<>>}
  ELSE LET S == Strs(n - 1)
       IN  S \cup {Append(s, c) : s \in {p \in S : Len(p) = n - 1}, c \in Chars}

\* The values given to as_number.
NumberInputs ==
  {NumStr(s) : s \in Strs(MaxLen)}
    \cup {NumInt(7), NumInt(-2), NumBool(TRUE), NumFloat(25, 1), NumNone}

\* A value is about to be given to as_number.
InitNumber ==
  /\ heap = InitHeap
  /\ confs = <<>>
  /\ env = NoEnviron
  /\ track = <<>>
  /\ \E value \in NumberInputs : call = [NoCall("value") EXCEPT !.args = <<value>>]
  /\ modules = {}
  /\ fd = NoStream

\* as_number(value) called by the program.
AsNumber ==
  /\ call.op = "value"
  /\ \E r \in {as_number(call.args[1])} :
       call' = [Call("as_number", call.args, <<>>, 0, <<>>, "", PyNone, r.exc, 0)
                  EXCEPT !.ret = r.ret]
  /\ UNCHANGED <<heap, confs, env, track>>

NextNumber ==
  /\ AsNumber
  /\ UNCHANGED <<modules, fd>>

SpecNumber == InitNumber /\ [][NextNumber]_vars

\* s is a string of decimal digits.
AsciiDigits(s) == Len(s) > 0 /\ \A i \in 1..Len(s) : s[i] \in {"0", "2", "4"}

\* s is a decimal string with a fractional part: digits, a point, digits.
Fractional(s) ==
  \E i \in 2..(Len(s) - 1) :
    /\ s[i] = "."
    /\ AsciiDigits(SubSeq(s, 1, i - 1))
    /\ AsciiDigits(SubSeq(s, i + 1, Len(s)))

\* C25: as_number maps every string of decimal digits to the int it writes,
\* every decimal string with a fractional part (such as "3.14") to the float
\* it writes, returns an int given unchanged, and returns any other string
\* unchanged.
C25_AsNumberCoerces ==
  (call.op = "as_number" /\ call.args[1].kind \in {"int", "str"}) =>
    LET value == call.args[1]
    IN  /\ call.exc = NoExc
        /\ call.ret =
             IF value.kind = "int" THEN value
             ELSE IF AsciiDigits(value.s) THEN NumInt(DecimalValue(value.s, Len(value.s)))
             ELSE IF Fractional(value.s) THEN float(value.s).ret
             ELSE value

\* ------------------------------------------ C26: is_file_newer_than_file

\* The latest modification time of a file.
MaxMtime == 3

\* In this part env holds the paths there are in the file system: for each
\* its modification time and whether it is a directory; track is the clock,
\* the time now; confs are the calls under way: each of them is a sequence of
\* system calls, and the file system goes from one state to the next between
\* any two of them.
Path(mtime, isdir) == [mtime |-> mtime, isdir |-> isdir]
FilePaths == {"a.txt", "b.txt"}
FileTimes ==
  UNION {[S -> {Path(t, FALSE) : t \in 1..MaxMtime}] : S \in SUBSET FilePaths}

\* The paths that are compared, and the paths that are made.
ComparedPaths == FilePaths \cup {"missing.txt"}
PathArgs == FilePaths \cup {"missing.txt", ""}

\* os.path.getmtime(filepath): the time, or OSError when there is no such path.
os_path_getmtime(fs, filepath) ==
  IF filepath \in DOMAIN fs
  THEN [exc |-> NoExc, ret |-> fs[filepath].mtime]
  ELSE [exc |-> Exc("FileNotFoundError", "No such file or directory", filepath), ret |-> 0]

\* _getmtime(filepath): 0 on os.error.
_getmtime(fs, filepath) ==
  LET r == os_path_getmtime(fs, filepath)
  IN  IF r.exc = NoExc THEN r.ret ELSE 0

\* is_file_newer_than_file(file_a, file_b): file_a is stat'ed first, in the
\* file system fs_a, and file_b after it, in the file system fs_b.
is_file_newer_than_file(fs_a, fs_b, file_a, file_b) ==
  _getmtime(fs_a, file_a) >= _getmtime(fs_b, file_b)

\* The file system with path made at the time now.
Created(fs, path, now, isdir) ==
  [q \in DOMAIN fs \cup {path} |-> IF q = path THEN Path(now, isdir) ELSE fs[q]]

\* mkdir_p(path): os.makedirs(path), the OSError of a path that exists
\* (EEXIST) passed over and any other raised; "" is no path.
mkdir_p(fs, path, now) ==
  IF path = ""
  THEN [fs |-> fs, exc |-> Exc("FileNotFoundError", "No such file or directory", path)]
  ELSE IF path \in DOMAIN fs THEN [fs |-> fs, exc |-> NoExc]
  ELSE [fs |-> Created(fs, path, now, TRUE), exc |-> NoExc]

\* touch(filepath), its test: os.path.exists(filepath)
os_path_exists(fs, filepath) == filepath \in DOMAIN fs

\* touch(filepath), open(filepath, "a"): a file that is missing is made, one
\* that is there is opened and left as it is, a directory cannot be opened.
touch_open(fs, filepath, now) ==
  IF filepath = ""
  THEN [fs |-> fs, exc |-> Exc("FileNotFoundError", "No such file or directory", filepath)]
  ELSE IF filepath \notin DOMAIN fs
  THEN [fs |-> Created(fs, filepath, now, FALSE), exc |-> NoExc]
  ELSE IF fs[filepath].isdir
  THEN [fs |-> fs, exc |-> Exc("IsADirectoryError", "Is a directory", filepath)]
  ELSE [fs |-> fs, exc |-> NoExc]

\* touch(filepath), os.utime(filepath, None): the times of the path are set
\* to now.
os_utime(fs, filepath, now) == [fs EXCEPT ![filepath].mtime = now]

\* touch(filepath) with nothing else running.
touch(fs, filepath, now) ==
  IF os_path_exists(fs, filepath) THEN [fs |-> fs, exc |-> NoExc]
  ELSE LET o == touch_open(fs, filepath, now)
       IN  IF o.exc # NoExc THEN o
           ELSE [fs |-> os_utime(o.fs, filepath, now), exc |-> NoExc]

\* Some files are there, with times before and after the time now, and
\* nothing is called yet.
InitNewer ==
  /\ heap = InitHeap
  /\ confs = <<>>
  /\ env \in FileTimes
  /\ track = 1
  /\ call = NoCall("start")
  /\ modules = {}
  /\ fd = NoStream

\* The times the clock may show at the next system call.
Now == track..MaxMtime

\* The calls under way but for the i-th.
Without(frames, i) == SubSeq(frames, 1, i - 1) \o SubSeq(frames, i + 1, Len(frames))

\* is_file_newer_than_file(file_a, file_b) is called and stats file_a.
IsFileNewerThanFile ==
  /\ call.seq + Len(confs) < MaxSteps
  /\ \E file_a, file_b \in ComparedPaths :
       confs' = Append(confs, [op |-> "is_file_newer_than_file", args |-> <<file_a, file_b>>,
                               pc |-> "file_b", fs |-> env])
  /\ UNCHANGED <<heap, env, call, track>>

\* is_file_newer_than_file stats file_b and returns; out has the file system
\* file_a was stat'ed in.
NewerReturn ==
  /\ \E i \in 1..Len(confs) :
       /\ confs[i].op = "is_file_newer_than_file"
       /\ call' = [Call("is_file_newer_than_file",
                        <<PyStr(confs[i].args[1]), PyStr(confs[i].args[2])>>,
                        <<>>, 0, <<>>, "", PyNone, NoExc, 0)
                     EXCEPT !.ret = PyBool(is_file_newer_than_file(confs[i].fs, env,
                                                                   confs[i].args[1],
                                                                   confs[i].args[2])),
                            !.out = <<confs[i].fs>>]
       /\ confs' = Without(confs, i)
  /\ UNCHANGED <<heap, env, track>>

\* mkdir_p(path): one system call.
MkdirP ==
  /\ call.seq + Len(confs) < MaxSteps
  /\ \E path \in PathArgs, now \in Now :
       \E r \in {mkdir_p(env, path, now)} :
         /\ env' = r.fs
         /\ track' = now
         /\ call' = Call("mkdir_p", <<PyStr(path)>>, <<>>, 0, <<>>, "", PyNone, r.exc, 0)
  /\ UNCHANGED <<heap, confs>>

\* touch(filepath) is called and tests whether the path exists: it returns
\* when it does.
Touch ==
  /\ call.seq + Len(confs) < MaxSteps
  /\ \E filepath \in PathArgs :
       IF os_path_exists(env, filepath)
       THEN /\ call' = Call("touch", <<PyStr(filepath)>>, <<>>, 0, <<>>, "", PyNone, NoExc, 0)
            /\ confs' = confs
       ELSE /\ confs' = Append(confs, [op |-> "touch", args |-> <<filepath>>,
                                       pc |-> "open", fs |-> env])
            /\ call' = call
  /\ UNCHANGED <<heap, env, track>>

\* touch opens the file, which makes it when it is missing, or raises.
TouchOpen ==
  /\ \E i \in 1..Len(confs), now \in Now :
       /\ confs[i].op = "touch" /\ confs[i].pc = "open"
       /\ \E r \in {touch_open(env, confs[i].args[1], now)} :
            /\ env' = r.fs
            /\ track' = now
            /\ IF r.exc # NoExc
               THEN /\ call' = Call("touch", <<PyStr(confs[i].args[1])>>, <<>>, 0, <<>>, "",
                                    PyNone, r.exc, 0)
                    /\ confs' = Without(confs, i)
               ELSE /\ call' = call
                    /\ confs' = [confs EXCEPT ![i].pc = "utime"]
  /\ UNCHANGED heap

\* touch sets the times of the file and returns.
TouchUtime ==
  /\ \E i \in 1..Len(confs), now \in Now :
       /\ confs[i].op = "touch" /\ confs[i].pc = "utime"
       /\ env' = os_utime(env, confs[i].args[1], now)
       /\ track' = now
       /\ call' = Call("touch", <<PyStr(confs[i].args[1])>>, <<>>, 0, <<>>, "", PyNone,
                       NoExc, 0)
       /\ confs' = Without(confs, i)
  /\ UNCHANGED heap

NextNewer ==
  \/ IsFileNewerThanFile /\ UNCHANGED <<modules, fd>>
  \/ NewerReturn /\ UNCHANGED <<modules, fd>>
  \/ MkdirP /\ UNCHANGED <<modules, fd>>
  \/ Touch /\ UNCHANGED <<modules, fd>>
  \/ TouchOpen /\ UNCHANGED <<modules, fd>>
  \/ TouchUtime /\ UNCHANGED <<modules, fd>>

SpecNewer == InitNewer /\ [][NextNewer]_vars

\* The modification time of the file at path, 0 when it cannot be stat'ed.
Mtime(path) == IF path \in DOMAIN env THEN env[path].mtime ELSE 0

\* C26: is_file_newer_than_file(a, b) returns True when a's modification time
\* is newer than b's and False otherwise, a file that cannot be stat'ed
\* counting as modified at time 0; the times are those of a file system that
\* did not change while the call ran.
C26_NewerIsStrict ==
  (call.op = "is_file_newer_than_file" /\ call.out = <<env>>) =>
    call.ret = PyBool(Mtime(call.args[1].s) > Mtime(call.args[2].s))

\* ---------------------------------------------------------- C27: memoize

\* The address of the memory that memoize's closure holds: what cls() made
\* when cls is callable, and cls itself, the caller's mapping with whatever
\* it holds, when it is not.
MEMORY == 1

\* What memoize is given as cls: the class dict, or a mapping.
DictType == [kind |-> "type", value |-> EmptyDict]
Mapping(d) == [kind |-> "dict", value |-> d]
callable(cls) == cls.kind = "type"

\* memory = cls() if callable(cls) else cls; dict() is a new empty dict.
memoize(cls) == IF callable(cls) THEN EmptyDict ELSE cls.value

\* The function wrapped: one that tells its invocations apart, returning the
\* number n of the invocation.
func(args, kwargs, n) == PyInt(n)

\* args + tuple(iteritems(kwargs)): the positional arguments, then one tuple
\* (name, value) for each keyword in the order of the call.  Item(k, v) is
\* the tuple (k, v).
full_args(args, kwargs) == args \o kwargs

\* memoize(func)(*args, **kwargs) as far as the test of its second line, with
\* func invoked n - 1 times so far: when full_args is not in memory func is
\* invoked and runs, and will return val; otherwise the call is at its
\* return statement.
_inner(memory, args, kwargs, n) ==
  IF full_args(args, kwargs) \notin DOMAIN memory.vals
  THEN [args |-> args, kwargs |-> kwargs, pc |-> "func", val |-> func(args, kwargs, n)]
  ELSE [args |-> args, kwargs |-> kwargs, pc |-> "return", val |-> PyNone]

\* memory[full_args] = what func returned
_inner_store(memory, frame) ==
  DictSetItem(memory, full_args(frame.args, frame.kwargs), frame.val)

\* return memory[full_args]
_inner_return(memory, frame) == memory.vals[full_args(frame.args, frame.kwargs)]

\* The calls of the wrapped function: one positional argument, two keywords
\* in either order, a tuple given positionally, and the keyword that tuple
\* looks like.
MemoCalls ==
  { [args |-> <<VB>>, kwargs |-> <<>>],
    [args |-> <<>>, kwargs |-> <<Item("a", VB), Item("b", VC)>>],
    [args |-> <<>>, kwargs |-> <<Item("b", VC), Item("a", VB)>>],
    [args |-> <<Item("a", VB)>>, kwargs |-> <<>>],
    [args |-> <<>>, kwargs |-> <<Item("a", VB)>>] }

\* What memoize is given as cls: dict, an empty mapping, and a mapping that
\* holds a value for the arguments ("B",).
MemoClasses ==
  { DictType,
    Mapping(EmptyDict),
    Mapping(Dict(<< <<VB>> >>, [k \in {<<VB>>} |-> PyStr("old")])) }

\* After memoize(func, cls).  In this part track is the list of the
\* invocations of func, and confs the calls of the wrapped function that are
\* under way: func is the caller's, and calls the wrapped function itself or
\* runs while another thread does.
InitMemo ==
  /\ \E cls \in MemoClasses :
       heap = [a \in {OPTIONS, MEMORY} |->
                 IF a = OPTIONS THEN Dict(OptionsOrder, SchemaDefaults) ELSE memoize(cls)]
  /\ confs = <<>>
  /\ env = NoEnviron
  /\ call = NoCall("start")
  /\ track = <<>>
  /\ modules = {}
  /\ fd = NoStream

\* A call of the wrapped function begins: the test, and func invoked when
\* the memory has no entry.
Memoized ==
  /\ call.seq + Len(confs) < MaxSteps
  /\ \E c \in MemoCalls :
       \E frame \in {_inner(heap[MEMORY], c.args, c.kwargs, Len(track) + 1)} :
         /\ confs' = Append(confs, frame)
         /\ track' = IF frame.pc = "func"
                     THEN Append(track, [args |-> c.args, kwargs |-> c.kwargs,
                                         ret |-> frame.val])
                     ELSE track
  /\ UNCHANGED <<heap, env, call>>

\* func returns in one of the calls under way, and what it returned is stored.
MemoStore ==
  \E i \in 1..Len(confs) :
    /\ confs[i].pc = "func"
    /\ heap' = [heap EXCEPT ![MEMORY] = _inner_store(heap[MEMORY], confs[i])]
    /\ confs' = [confs EXCEPT ![i].pc = "return"]
    /\ UNCHANGED <<env, call, track>>

\* One of the calls under way returns what the memory holds.
MemoReturn ==
  \E i \in 1..Len(confs) :
    /\ confs[i].pc = "return"
    /\ call' = [Call("_inner", confs[i].args, confs[i].kwargs, 0, <<>>, "", PyNone, NoExc, 0)
                  EXCEPT !.ret = _inner_return(heap[MEMORY], confs[i])]
    /\ confs' = Without(confs, i)
    /\ UNCHANGED <<heap, env, track>>

NextMemo ==
  \/ Memoized /\ UNCHANGED <<modules, fd>>
  \/ MemoStore /\ UNCHANGED <<modules, fd>>
  \/ MemoReturn /\ UNCHANGED <<modules, fd>>

SpecMemo == InitMemo /\ [][NextMemo]_vars

\* A combination of arguments: the positional ones in order and each keyword
\* with its value.
Combination(args, kwargs) ==
  [args |-> args, kwargs |-> {kwargs[i] : i \in 1..Len(kwargs)}]

\* What a step of a call of the wrapped function does: func is invoked only
\* when it was not invoked with this combination before; a call returns what
\* the first invocation with its combination returned; the entries of the
\* memory stay.
C27_Step ==
  LET Same(i, args, kwargs) ==
        Combination(track[i].args, track[i].kwargs) = Combination(args, kwargs)
  IN  /\ track' # track =>
           /\ Len(track') = Len(track) + 1
           /\ SubSeq(track', 1, Len(track)) = track
           /\ \A i \in 1..Len(track) :
                ~Same(i, track'[Len(track')].args, track'[Len(track')].kwargs)
      /\ call'.seq # call.seq =>
           LET earlier == {i \in 1..Len(track) : Same(i, call'.args, call'.kwargs)}
           IN  /\ earlier # {}
               /\ call'.ret = track[CHOOSE i \in earlier : \A j \in earlier : i <= j].ret
      /\ \A k \in DOMAIN heap[MEMORY].vals :
           k \in DOMAIN heap'[MEMORY].vals /\ heap'[MEMORY].vals[k] = heap[MEMORY].vals[k]

\* C27: over any sequence of calls of a function wrapped by memoize the
\* function is invoked at most once for each combination of positional and
\* keyword arguments, at the first call with that combination, and every
\* later call with the combination returns the result of that invocation
\* without another; no entry is evicted or overwritten.
C27_InvokedOncePerCombination == [][C27_Step]_vars

\* --------------------------------------------- C28: run_in_separate_process

\* In this part env is the operating system's side of the call: the pipe
\* (the messages written and not yet read), the processes that hold its
\* write end open, and the child process; track holds the position of the
\* parent and of the child in the code and their locals status and result.

\* How a call of func ends: an exception raised, or a value returned.
Outcome(exc, ret) == [exc |-> exc, ret |-> ret]

\* The functions given: returning an int, None, a str, a lambda of a module,
\* an open file; raising ValueError, PathNotFound, ImportStringError, SystemExit.
Funcs ==
  { Outcome(NoExc, PyInt(7)),
    Outcome(NoExc, PyNone),
    Outcome(NoExc, PyStr("B")),
    Outcome(NoExc, PyObj("lambda")),
    Outcome(NoExc, PyObj("file")),
    Outcome(Exc("ValueError", "boom", ""), PyNone),
    Outcome(Exc("PathNotFound", "unable to find ancestor", "a"), PyNone),
    Outcome(Exc("ImportStringError", "ValueError", "a.b"), PyNone),
    Outcome(Exc("SystemExit", "", ""), PyNone) }

\* isinstance(e, Exception): SystemExit is a BaseException that is none.
IsException(e) == e.type # "SystemExit"

\* The tuple (status, result) as a message; result is exc when there is one.
Message(status, result) == [status |-> status, exc |-> result.exc, ret |-> result.ret]

\* pickle.dump((status, result), fd): the exception it raises, NoExc when the
\* message was written.  A function that is not found by its name gives
\* PicklingError, an open file TypeError.
pickle_dump(m) ==
  IF m.exc = NoExc /\ m.ret = PyObj("lambda")
  THEN Exc("PicklingError", "Can't pickle: attribute lookup failed", "")
  ELSE IF m.exc = NoExc /\ m.ret = PyObj("file")
       THEN Exc("TypeError", "cannot pickle object", "")
       ELSE NoExc

\* pickle.load(fd) of a message: the exception it raises.  An
\* ImportStringError is rebuilt by _err_from_packed_args, which calls
\* ImportStringError(**kwargs) with keywords __init__ does not take.
pickle_load(m) ==
  IF m.exc.type = "ImportStringError"
  THEN Exc("TypeError", "__init__() got an unexpected keyword argument", "exception_name")
  ELSE NoExc

NoProcess == [pipe |-> <<>>, writers |-> {}, child |-> "none"]

InitProcess ==
  /\ heap = InitHeap
  /\ confs = <<>>
  /\ env = NoProcess
  /\ track = [parent |-> "pipe", child |-> "none", status |-> 0,
              result |-> Outcome(NoExc, PyNone)]
  /\ \E f \in Funcs : call = [NoCall("func") EXCEPT !.exc = f.exc, !.ret = f.ret]
  /\ modules = {}
  /\ fd = NoStream

\* The parent's call is over: it returned result.ret or raised result.exc.
ParentDone(result) ==
  call' = [Call("run_in_separate_process", <<call.ret>>, <<>>, 0, <<>>, "",
                IF call.op = "func" THEN PyStr(call.exc.type) ELSE call.value,
                result.exc, 0)
             EXCEPT !.ret = result.ret]

\* read_fd, write_fd = os.pipe(); pid = os.fork()
Fork ==
  /\ track.parent = "pipe"
  /\ env' = [pipe |-> <<>>, writers |-> {"parent", "child"}, child |-> "running"]
  /\ track' = [track EXCEPT !.parent = "close_write", !.child = "close_read"]
  /\ UNCHANGED <<heap, confs, call>>

\* parent: os.close(write_fd)
ParentCloseWrite ==
  /\ track.parent = "close_write"
  /\ env' = [env EXCEPT !.writers = @ \ {"parent"}]
  /\ track' = [track EXCEPT !.parent = "load"]
  /\ UNCHANGED <<heap, confs, call>>

\* parent: with os.fdopen(read_fd, "rb") as fd: status, result =
\* pickle.load(fd).  The read blocks until there is a message or no process
\* holds the write end, which is end of file.
ParentLoad ==
  /\ track.parent = "load"
  /\ Len(env.pipe) > 0 \/ env.writers = {}
  /\ IF Len(env.pipe) = 0
     THEN /\ ParentDone(Outcome(Exc("EOFError", "Ran out of input", ""), PyNone))
          /\ track' = [track EXCEPT !.parent = "done"]
          /\ env' = env
     ELSE \E m \in {env.pipe[1]} :
            /\ env' = [env EXCEPT !.pipe = Tail(@)]
            /\ IF pickle_load(m) # NoExc
               THEN /\ ParentDone(Outcome(pickle_load(m), PyNone))
                    /\ track' = [track EXCEPT !.parent = "done"]
               ELSE /\ track' = [track EXCEPT !.parent = "waitpid", !.status = m.status,
                                              !.result = Outcome(m.exc, m.ret)]
                    /\ call' = call
  /\ UNCHANGED <<heap, confs>>

\* parent: os.waitpid(pid, 0), which blocks until the child is over; then
\* return result when status == 0, raise result otherwise.
ParentWait ==
  /\ track.parent = "waitpid"
  /\ env.child = "exited"
  /\ env' = [env EXCEPT !.child = "reaped"]
  /\ track' = [track EXCEPT !.parent = "done"]
  /\ ParentDone(track.result)
  /\ UNCHANGED <<heap, confs>>

\* child: os.close(read_fd)
ChildCloseRead ==
  /\ track.child = "close_read"
  /\ track' = [track EXCEPT !.child = "func"]
  /\ UNCHANGED <<heap, confs, env, call>>

\* child: try: result, status = func(*args, **kwargs), 0; except Exception
\* as e: result, status = e, 1.  An exception that is no Exception leaves
\* run_in_separate_process for its caller, in the child.
ChildFunc ==
  /\ track.child = "func"
  /\ \E f \in {Outcome(call.exc, call.ret)} :
       track' = IF f.exc = NoExc
                THEN [track EXCEPT !.child = "dump", !.status = 0, !.result = f]
                ELSE IF IsException(f.exc)
                     THEN [track EXCEPT !.child = "dump", !.status = 1, !.result = f]
                     ELSE [track EXCEPT !.child = "escaped"]
  /\ UNCHANGED <<heap, confs, env, call>>

\* child: with os.fdopen(write_fd, "wb") as fd: pickle.dump((status,
\* result), fd), and (2, e) in its place on PicklingError.  What was dumped
\* reaches the pipe when the with block closes fd; another exception of dump
\* leaves the block, which closes fd, and the function, in the child.
ChildDump ==
  /\ track.child = "dump"
  /\ \E m \in {Message(track.status, track.result)} :
       \E e \in {pickle_dump(m)} :
         IF e = NoExc
         THEN /\ env' = [env EXCEPT !.pipe = Append(@, m), !.writers = @ \ {"child"}]
              /\ track' = [track EXCEPT !.child = "exit"]
         ELSE IF e.type = "PicklingError"
              THEN /\ env' = [env EXCEPT !.pipe = Append(@, Message(2, Outcome(e, PyNone))),
                                         !.writers = @ \ {"child"}]
                   /\ track' = [track EXCEPT !.child = "exit"]
              ELSE /\ env' = [env EXCEPT !.writers = @ \ {"child"}]
                   /\ track' = [track EXCEPT !.child = "escaped"]
  /\ UNCHANGED <<heap, confs, call>>

\* child: os._exit(0)
ChildExit ==
  /\ track.child = "exit"
  /\ env' = [env EXCEPT !.child = "exited"]
  /\ track' = [track EXCEPT !.child = "exited"]
  /\ UNCHANGED <<heap, confs, call>>

\* A child that left the function runs its caller's code; its process is
\* over some time, and with it its hold of the write end.
ChildEnds ==
  /\ track.child = "escaped"
  /\ env' = [env EXCEPT !.child = "exited", !.writers = @ \ {"child"}]
  /\ track' = [track EXCEPT !.child = "ended"]
  /\ UNCHANGED <<heap, confs, call>>

NextProcess ==
  /\ \/ Fork
     \/ ParentCloseWrite
     \/ ParentLoad
     \/ ParentWait
     \/ ChildCloseRead
     \/ ChildFunc
     \/ ChildDump
     \/ ChildExit
     \/ ChildEnds
  /\ UNCHANGED <<modules, fd>>

SpecProcess == InitProcess /\ [][NextProcess]_vars

\* C28: run_in_separate_process(func) delivers in the parent the outcome
\* func had in the child: it returns what func returned and raises what func
\* raised; the parent returns or raises only after the child has written its
\* result and has been waited for; and the child ends without returning into
\* the caller's code.
C28_ParentGetsChildOutcome ==
  /\ track.child \notin {"escaped", "ended"}
  /\ call.op = "run_in_separate_process" =>
       /\ call.ret = call.args[1]
       /\ call.exc.type = call.value.s
       /\ env.child = "reaped"

\* -------------------------------------------------------- C29: DateRange

\* The last day of the dates given, and the longest step in days.
MaxDay == 3
MaxStepDays == 2

\* A datetime.date as the number n of its day, and a timedelta of n days.
PyDate(n) == [kind |-> "date", n |-> n, s |-> ""]
PyDelta(n) == [kind |-> "timedelta", n |-> n, s |-> ""]

TIMEDELTA_ZERO == PyDelta(0)

\* The address of the DateRange made: heap holds its attributes there.
RANGE == 1

\* The most that is taken from one iterator: more than a range with a stop
\* among the days has.
MaxYield == MaxDay + 1

\* DateRange(start, stop, step): what __init__ raises, or the attributes it
\* sets.
DateRange(start, stop, step) ==
  IF start = PyNone
  THEN [exc |-> Exc("TypeError", "must provide starting point for DateRange", ""),
        self |-> PyNone]
  ELSE IF step = PyNone
  THEN [exc |-> Exc("TypeError", "must provide step for DateRange", ""), self |-> PyNone]
  ELSE IF step = PyDelta(0)
  THEN [exc |-> Exc("TypeError", "must provide non-zero step for DateRange", ""),
        self |-> PyNone]
  ELSE [exc |-> NoExc,
        self |-> [start |-> start, stop |-> stop, step |-> step,
                  _has_neg_step |-> step.n < TIMEDELTA_ZERO.n]]

\* abs(x)
abs(x) == IF x < 0 THEN -x ELSE x

\* int(ceil(abs(a / b))) for whole numbers of seconds a and b, b not 0.
ceil_abs_div(a, b) == (abs(a) + abs(b) - 1) \div abs(b)

\* a % b of Python, which has the sign of b.
PyMod(a, b) == IF b > 0 THEN a % b ELSE -((-a) % (-b))

\* timedelta.total_seconds() of a number of days
total_seconds(days) == days * 86400

\* DateRange.__len__
__len__(self) ==
  IF self.stop = PyNone
  THEN [exc |-> Exc("TypeError", "infinite range", ""), ret |-> PyNone]
  ELSE LET calc == IF self._has_neg_step
                   THEN self.start.n - self.stop.n
                   ELSE self.stop.n - self.start.n
       IN  [exc |-> NoExc,
            ret |-> PyInt(ceil_abs_div(total_seconds(calc), total_seconds(self.step.n)))]

\* DateRange.__contains__
__contains__(self, value) ==
  LET check == IF self.stop # PyNone
               THEN IF self._has_neg_step
                    THEN self.start.n >= value.n /\ value.n > self.stop.n
                    ELSE self.start.n <= value.n /\ value.n < self.stop.n
               ELSE IF self._has_neg_step
                    THEN self.start.n >= value.n
                    ELSE self.start.n <= value.n
      difference == value.n - self.start.n
  IN  IF ~check THEN FALSE
      ELSE PyMod(total_seconds(difference), total_seconds(self.step.n)) = 0

\* DateRange._check_stop: a date does not compare with None.
_check_stop(self, current) ==
  IF self.stop = PyNone
  THEN [exc |-> Exc("TypeError",
                    "not supported between instances of 'datetime.date' and 'NoneType'",
                    IF self._has_neg_step THEN "<=" ELSE ">="),
        ret |-> FALSE]
  ELSE [exc |-> NoExc,
        ret |-> IF self._has_neg_step THEN current.n <= self.stop.n
                ELSE current.n >= self.stop.n]

\* DateRange.__iter__ is a generator: iter(r) runs none of it.
__iter__(self) ==
  [pc |-> "new", current |-> PyNone, stopping |-> FALSE, out |-> <<>>, exc |-> NoExc]

\* next(g) of the generator g of the range self: from where g stands to its
\* next yield, its end, or what it raises.  start and stop are read at the
\* first next, stop at every test, step after every yield.
__next__(self, g) ==
  IF g.pc = "done" THEN [g EXCEPT !.exc = NoExc]
  ELSE LET current == IF g.pc = "new" THEN self.start
                      ELSE PyDate(g.current.n + self.step.n)
           stopping == IF g.pc = "new" THEN self.stop # PyNone ELSE g.stopping
           stop == IF stopping THEN _check_stop(self, current)
                   ELSE [exc |-> NoExc, ret |-> FALSE]
       IN  IF stop.exc # NoExc
           THEN [pc |-> "done", current |-> current, stopping |-> stopping,
                 out |-> g.out, exc |-> stop.exc]
           ELSE IF stop.ret
           THEN [pc |-> "done", current |-> current, stopping |-> stopping,
                 out |-> g.out, exc |-> NoExc]
           ELSE [pc |-> "yield", current |-> current, stopping |-> stopping,
                 out |-> Append(g.out, current), exc |-> NoExc]

\* list(r) of a range with a stop, with no assignment in between: what the
\* generator yields until it ends.
RECURSIVE iter_run(_, _)
iter_run(self, g) == IF g.pc = "done" THEN g.out ELSE iter_run(self, __next__(self, g))

\* The ranges made and the values looked for.
Days == 0..MaxDay
Steps == ((0 - MaxStepDays)..MaxStepDays) \ {0}
Values == (-1)..(MaxDay + 1)
Dates == {PyDate(n) : n \in Days}

\* What the constructor is given: a start or none, a stop or none, and a
\* step, none, or timedelta(0).
RangeStarts == Dates \cup {PyNone}
RangeStops == {PyDate(0), PyDate(MaxDay - 1), PyDate(MaxDay), PyNone}
RangeSteps == {PyDelta(n) : n \in Steps \cup {0}} \cup {PyNone}

\* Before a DateRange is made.  In this part confs is the list of the
\* generators made by iter(r).
InitRange ==
  /\ heap = InitHeap
  /\ confs = <<>>
  /\ env = NoEnviron
  /\ track = <<>>
  /\ call = NoCall("start")
  /\ modules = {}
  /\ fd = NoStream

\* r = DateRange(start, stop, step)
RangeMake ==
  /\ RANGE \notin DOMAIN heap
  /\ \E start \in RangeStarts, stop \in RangeStops, step \in RangeSteps :
       \E r \in {DateRange(start, stop, step)} :
         /\ heap' = IF r.exc = NoExc
                    THEN [a \in DOMAIN heap \cup {RANGE} |->
                            IF a = RANGE THEN r.self ELSE heap[a]]
                    ELSE heap
         /\ call' = Call("DateRange", <<start, stop, step>>, <<>>, 0, <<>>, "", PyNone,
                         r.exc, 0)
  /\ UNCHANGED <<confs, env, track>>

\* len(r)
RangeLen ==
  /\ RANGE \in DOMAIN heap
  /\ \E r \in {__len__(heap[RANGE])} :
       call' = [Call("__len__", <<>>, <<>>, 0, <<>>, "", PyNone, r.exc, 0)
                  EXCEPT !.ret = r.ret]
  /\ UNCHANGED <<heap, confs, env, track>>

\* value in r
RangeContains ==
  /\ RANGE \in DOMAIN heap
  /\ \E v \in Values :
       call' = [Call("__contains__", <<>>, <<>>, 0, <<>>, "", PyDate(v), NoExc, 0)
                  EXCEPT !.ret = PyBool(__contains__(heap[RANGE], PyDate(v)))]
  /\ UNCHANGED <<heap, confs, env, track>>

\* iter(r)
RangeIter ==
  /\ RANGE \in DOMAIN heap
  /\ confs' = Append(confs, __iter__(heap[RANGE]))
  /\ call' = Call("__iter__", <<>>, <<>>, 0, <<>>, "", PyNone, NoExc, Len(confs) + 1)
  /\ UNCHANGED <<heap, env, track>>

\* r.stop = value, r.step = value: the attributes are the caller's to assign
\* while a generator is under way.  The steps assigned have the direction of
\* the step the range was made with.
RangeSet ==
  /\ RANGE \in DOMAIN heap
  /\ \/ \E stop \in RangeStops :
          /\ heap' = [heap EXCEPT ![RANGE].stop = stop]
          /\ call' = Call("__setattr__", <<>>, <<>>, 0, <<>>, "stop", stop, NoExc, 0)
     \/ \E n \in Steps :
          /\ (n < 0) = heap[RANGE]._has_neg_step
          /\ heap' = [heap EXCEPT ![RANGE].step = PyDelta(n)]
          /\ call' = Call("__setattr__", <<>>, <<>>, 0, <<>>, "step", PyDelta(n), NoExc, 0)
  /\ UNCHANGED <<confs, env, track>>

\* next(g) for one of the generators: it yields ret, or ends (StopIteration),
\* or raises.
RangeNext ==
  /\ \E i \in 1..Len(confs) :
       /\ Len(confs[i].out) < MaxYield
       /\ \E g \in {__next__(heap[RANGE], confs[i])} :
            /\ confs' = [confs EXCEPT ![i] = g]
            /\ call' = [Call("__next__", <<>>, <<>>, 0, <<>>, "", PyNone,
                             IF g.exc # NoExc THEN g.exc
                             ELSE IF g.pc = "done" THEN Exc("StopIteration", "", "")
                             ELSE NoExc, i)
                          EXCEPT !.ret = IF g.pc = "yield" THEN g.current ELSE PyNone,
                                 !.out = g.out,
                                 !.seq = call.seq]
  /\ UNCHANGED <<heap, env, track>>

\* The calls are counted, the steps of the generators are not.
NextRange ==
  \/ /\ call.seq < MaxSteps
     /\ \/ RangeMake
        \/ RangeLen
        \/ RangeContains
        \/ RangeIter
        \/ RangeSet
     /\ UNCHANGED <<modules, fd>>
  \/ /\ RangeNext
     /\ UNCHANGED <<modules, fd>>

SpecRange == InitRange /\ [][NextRange]_vars

\* What iterating the range yields as it is now.
Yielded == iter_run(heap[RANGE], __iter__(heap[RANGE]))

\* C29: for every DateRange r with a stop, whatever its start, its stop and
\* its step, positive or negative, len(r) is the number of elements that
\* iterating r yields, and v in r holds exactly when iterating r yields v.
C29_LenAndContainsMatchIteration ==
  (RANGE \in DOMAIN heap /\ heap[RANGE].stop # PyNone) =>
    /\ call.op = "__len__" =>
         call.exc = NoExc /\ call.ret = PyInt(Len(Yielded))
    /\ call.op = "__contains__" =>
         call.ret = PyBool(\E i \in 1..Len(Yielded) : Yielded[i] = call.value)

\* ------------------------------------------- C30: the errors and pickling

\* An exception object that is none of the package's, such as ValueError(msg).
PyExc(type, msg) == [kind |-> type, n |-> 0, s |-> msg]

\* str(value) for a str or an exception with one argument, and its class name.
str_of(value) == value.s
class_name(value) == value.kind

\* A format string is a list of pieces: literal text, or a field {name}.
Lit(text) == [lit |-> TRUE, s |-> text]
Field(name) == [lit |-> FALSE, s |-> name]

\* The class attribute fmt of each error class.
fmt(cls) ==
  CASE cls = "ImportStringError" ->
         <<Lit("import_string() failed for "), Field("import_name"),
           Lit(". possible reasons are: [...] debugged import: "), Field("exception_name"),
           Lit(" original exception: "), Field("exception")>>
    [] cls = "PathNotFound" ->
         <<Lit("unable to find ancestor "), Field("ancestor"), Lit(" in "), Field("dirname")>>
    [] OTHER -> <<Lit("unexpected error occurred: "), Field("error")>>

\* No keywords.  The keywords of a call are a dict: the names in the order
\* of the call, and the value of each.
NoKwargs == EmptyDict

\* f.format(**kwargs): the pieces of the text, or KeyError for a field that
\* kwargs does not name; names that f does not use are ignored.
str_format(f, kwargs) ==
  LET Missing(i) == ~f[i].lit /\ f[i].s \notin DOMAIN kwargs.vals
  IN  IF \E i \in 1..Len(f) : Missing(i)
      THEN [exc |-> Exc("KeyError", "",
                        f[CHOOSE i \in 1..Len(f) :
                            Missing(i) /\ \A j \in 1..(i - 1) : ~Missing(j)].s),
            ret |-> <<>>]
      ELSE [exc |-> NoExc,
            ret |-> [i \in 1..Len(f) |->
                      IF f[i].lit THEN f[i].s ELSE str_of(kwargs.vals[f[i].s])]]

\* No instance: what a constructor that raised leaves.
NoError == [cls |-> "", msg |-> <<>>, kwargs |-> NoKwargs]

\* BaseError.__init__(self, **kwargs) on an instance of class cls.
BaseError(cls, kwargs) ==
  LET msg == str_format(fmt(cls), kwargs)
  IN  IF msg.exc # NoExc THEN [exc |-> msg.exc, ret |-> NoError]
      ELSE [exc |-> NoExc, ret |-> [cls |-> cls, msg |-> msg.ret, kwargs |-> kwargs]]

\* The binding of positional arguments args and keywords kwargs to the
\* parameters params of an __init__ without defaults, as the interpreter
\* does it: the positional arguments are taken first, then the keywords in
\* the order of the call, the first that names no parameter or names one
\* already given raising; then the number of positional arguments is
\* checked, then that every parameter has a value.
Bind(params, args, kwargs) ==
  LET names == {params[i] : i \in 1..Len(params)}
      given == {params[i] : i \in {j \in 1..Len(params) : j <= Len(args)}}
      Bad(i) == kwargs.keys[i] \notin names \/ kwargs.keys[i] \in given
      Unset(i) == params[i] \notin given \cup DOMAIN kwargs.vals
  IN  IF \E i \in 1..Len(kwargs.keys) : Bad(i)
      THEN LET k == kwargs.keys[CHOOSE i \in 1..Len(kwargs.keys) :
                                  Bad(i) /\ \A j \in 1..(i - 1) : ~Bad(j)]
           IN  [exc |-> IF k \notin names
                        THEN Exc("TypeError", "__init__() got an unexpected keyword argument", k)
                        ELSE Exc("TypeError", "got multiple values for argument", k),
                ret |-> NoKwargs.vals]
      ELSE IF Len(args) > Len(params)
      THEN [exc |-> Exc("TypeError", "takes positional arguments but more were given", ""),
            ret |-> NoKwargs.vals]
      ELSE IF \E i \in 1..Len(params) : Unset(i)
      THEN [exc |-> Exc("TypeError", "missing required positional argument",
                        params[CHOOSE i \in 1..Len(params) :
                                 Unset(i) /\ \A j \in 1..(i - 1) : ~Unset(j)]),
            ret |-> NoKwargs.vals]
      ELSE [exc |-> NoExc,
            ret |-> [k \in names |->
                       IF k \in given
                       THEN args[CHOOSE i \in 1..Len(args) : params[i] = k]
                       ELSE kwargs.vals[k]]]

\* ImportStringError(*args, **kwargs): __init__(self, import_name, exception)
ImportStringError(args, kwargs) ==
  LET b == Bind(<<"import_name", "exception">>, args, kwargs)
  IN  IF b.exc # NoExc THEN [exc |-> b.exc, ret |-> NoError]
      ELSE BaseError("ImportStringError",
                     Dict(<<"import_name", "exception_name", "exception">>,
                          [k \in {"import_name", "exception_name", "exception"} |->
                             CASE k = "import_name" -> b.ret["import_name"]
                               [] k = "exception_name" -> PyStr(class_name(b.ret["exception"]))
                               [] OTHER -> b.ret["exception"]]))

\* PathNotFound(*args, **kwargs): __init__(self, ancestor, dirname)
PathNotFound(args, kwargs) ==
  LET b == Bind(<<"ancestor", "dirname">>, args, kwargs)
  IN  IF b.exc # NoExc THEN [exc |-> b.exc, ret |-> NoError]
      ELSE BaseError("PathNotFound",
                     Dict(<<"ancestor", "dirname">>,
                          [k \in {"ancestor", "dirname"} |-> b.ret[k]]))

\* exception_cls(*args, **kwargs) for a class of the package.
exception_cls(cls, args, kwargs) ==
  CASE cls = "ImportStringError" -> ImportStringError(args, kwargs)
    [] cls = "PathNotFound" -> PathNotFound(args, kwargs)
    [] OTHER ->
         IF Len(args) > 0
         THEN [exc |-> Exc("TypeError", "takes positional arguments but more were given", ""),
               ret |-> NoError]
         ELSE BaseError(cls, kwargs)

\* _err_from_packed_args(exception_cls, args, kwargs); none is None.
_err_from_packed_args(cls, args, kwargs, none) ==
  exception_cls(cls,
                IF "args" \in none THEN <<>> ELSE args,
                IF "kwargs" \in none THEN NoKwargs ELSE kwargs)

\* BaseError.__reduce__(self): the callable and its arguments
\* (self.__class__, None, self.kwargs).
__reduce__(self) ==
  [callable |-> "_err_from_packed_args", cls |-> self.cls, args |-> <<>>,
   kwargs |-> self.kwargs, none |-> {"args"}]

\* The instances the program makes.
ErrStrs == {PyStr("a"), PyStr("b"), PyStr("a.b"), PyStr("")}
Causes == {PyExc("ValueError", "x"), PyExc("ModuleNotFoundError", "No module named a")}
Errors ==
  {BaseError("BaseError", Dict(<<"error">>, [k \in {"error"} |-> v])).ret : v \in ErrStrs}
    \cup {BaseError("BaseError",
                     Dict(<<"extra", "error">>,
                          [k \in {"error", "extra"} |-> IF k = "error" THEN v ELSE w])).ret :
            v \in ErrStrs, w \in ErrStrs}
    \cup {PathNotFound(<<v, w>>, NoKwargs).ret : v \in ErrStrs, w \in ErrStrs}
    \cup {ImportStringError(<<v, e>>, NoKwargs).ret : v \in ErrStrs, e \in Causes}

\* In this part track is the error instance there is and what __reduce__
\* returned for it.
NotReduced ==
  [callable |-> "", cls |-> "", args |-> <<>>, kwargs |-> NoKwargs, none |-> {}]

InitError ==
  /\ heap = InitHeap
  /\ confs = <<>>
  /\ env = NoEnviron
  /\ call = NoCall("start")
  /\ \E e \in Errors : track = [error |-> e, reduced |-> NotReduced]
  /\ modules = {}
  /\ fd = NoStream

\* e.__reduce__()
Reduce ==
  /\ call.op = "start"
  /\ track' = [track EXCEPT !.reduced = __reduce__(track.error)]
  /\ call' = Call("__reduce__", <<>>, <<>>, 0, <<>>, track.error.cls, PyNone, NoExc, 0)
  /\ UNCHANGED <<heap, confs, env>>

\* callable(*arguments) on what __reduce__ returned, as unpickling does: key
\* is the class of the instance made, out its message, map its kwargs.
Reconstruct ==
  /\ call.op = "__reduce__"
  /\ \E r \in {_err_from_packed_args(track.reduced.cls, track.reduced.args,
                                     track.reduced.kwargs, track.reduced.none)} :
       call' = [Call(track.reduced.callable, <<>>, <<>>, 0, <<>>, r.ret.cls, PyNone, r.exc, 0)
                  EXCEPT !.out = r.ret.msg, !.map = r.ret.kwargs]
  /\ UNCHANGED <<heap, confs, env, track>>

NextError ==
  /\ \/ Reduce
     \/ Reconstruct
  /\ UNCHANGED <<modules, fd>>

SpecError == InitError /\ [][NextError]_vars

\* C30: every error class of the package (BaseError, ImportStringError,
\* PathNotFound) survives the reduce and reconstruct round trip that pickling
\* uses: applying the callable and arguments that __reduce__() returned for
\* an instance yields, without error, an instance of the same class with the
\* same message.
C30_ReduceRoundTrip ==
  call.op = "_err_from_packed_args" =>
    /\ call.exc = NoExc
    /\ call.key = track.error.cls
    /\ call.out = track.error.msg

====
